---- MODULE Spec2Model ----
(***************************************************************************)
(* Model of the mechmania engine: the shared-memory channel between the   *)
(* engine (BotChannel::msg) and one bot (EngineChannel::handle_msg), and  *)
(* the bot manager's compute budget (BotManager::reset / tick).           *)
(*                                                                         *)
(* The mapped region Shm = { sync, union } is three cells here: the sync  *)
(* byte, the union's discriminant byte and the union's payload.  The two  *)
(* processes run at their own speed, so every load and store of one of    *)
(* these cells is a step of its own; a copy of the whole union is two     *)
(* stores, in either order, which is what lets an unsynchronised overlap  *)
(* of two copies leave a torn union behind.                               *)
(***************************************************************************)
EXTENDS Integers, FiniteSets, Sequences, TLC

(* ------------------------------------------------------------------ *)
(* Bounds of the model                                                 *)
(* ------------------------------------------------------------------ *)

\* msg calls made on the channel in one behaviour
MaxCalls == 3

\* reset / tick requests accounted in one behaviour of SpecBudget
MaxRequests == 3

(* ------------------------------------------------------------------ *)
(* Program constants                                                   *)
(* ------------------------------------------------------------------ *)

\* EngineStatus
READY == 0
BUSY == 1
FINISHED == 2

TOTAL_COMPUTE_TICKS == 100000
DELAY_TICKS == 2000

\* A u32 is a pair <<hi, lo>> of 16-bit limbs, value hi * 2^16 + lo (the
\* model checker's own integers are narrower than 2^32).
Limb == 2 ^ 16

U32_MAX == <<Limb - 1, Limb - 1>>

\* the u32 of a number 0 <= n < 2^31, and back
U32(n) == <<n \div Limb, n % Limb>>

Num(x) == x[1] * Limb + x[2]

\* x <= y on u32
Le(x, y) == x[1] < y[1] \/ (x[1] = y[1] /\ x[2] <= y[2])

\* u32::min
min(x, y) == IF Le(x, y) THEN x ELSE y

\* x + y and x - y on u32: the wrapped value, and whether it wrapped
Add(x, y) ==
    LET lo == x[2] + y[2]
        hi == x[1] + y[1] + (lo \div Limb)
    IN  [val |-> <<hi % Limb, lo % Limb>>, wrapped |-> hi >= Limb]

Sub(x, y) ==
    LET lo == x[2] - y[2]
        hi == x[1] - y[1] - (IF lo < 0 THEN 1 ELSE 0)
    IN  [val |-> <<(hi + Limb) % Limb, (lo + Limb) % Limb>>, wrapped |-> hi < 0]

\* the protocols the engine speaks (engine.rs: msg::<HandshakeProtocol>,
\* msg::<ResetProtocol>, msg::<TickProtocol>), in declaration order
Protocols == <<"Handshake", "Reset", "Tick">>

ProtocolNames == {Protocols[i] : i \in 1..Len(Protocols)}

\* enum ProtocolId: `Self::ID as u8`, the position in the declaration list
ProtocolId(p) == (CHOOSE i \in 1..Len(Protocols) : Protocols[i] = p) - 1

msg_discriminant(p) == ProtocolId(p) * 2

\* response_discriminant returning the message's discriminant
response_discriminant_Mut(p) == ProtocolId(p) * 2

response_discriminant(p) == ProtocolId(p) * 2 + 1

\* enum ProtocolUnion: the variants are declared <P>Msg, <P>Response per
\* protocol, so the tag byte of a variant is its position in that list
MsgVariant(p) == 2 * ProtocolId(p)
ResponseVariant(p) == 2 * ProtocolId(p) + 1

MsgVariants == {MsgVariant(p) : p \in ProtocolNames}

ProtocolOfMsgVariant(d) == CHOOSE p \in ProtocolNames : MsgVariant(p) = d

\* a value no cell holds: "nothing read / nothing returned"
None == 0 - 1

(* ------------------------------------------------------------------ *)
(* State                                                               *)
(* ------------------------------------------------------------------ *)

VARIABLES
    sync,       \* Shm.sync
    udisc,      \* Shm.union: discriminant byte
    uval,       \* Shm.union: payload
    epc,        \* engine: position inside BotChannel::msg ("idle" outside)
    eproto,     \* engine: the protocol T of the current msg call
    emsg,       \* engine: the message of the current msg call
    ewr,        \* engine: cells of the union the copy has still to store
    expired,    \* engine: the deadline of the current wait has passed
    discriminant, \* engine: local `discriminant` of msg (None: not read)
    res,        \* engine: what the last msg call returned
    calls,      \* number of msg calls made
    timedOut,   \* some msg call has returned Timeout
    bpc,        \* bot: position inside handle_msg
    bproto,     \* bot: protocol the match in Strategy::handle_msg selected
    bresp,      \* bot: payload of the response the callback returned
    bwr,        \* bot: cells of the union `*msg = response` has still to store
    ticks,      \* BotManager.ticks
    elapsed,    \* BotManager: local `elapsed` of the last reset / tick
    overflow,   \* BotManager: a u32 operation of the last update wrapped
    requests,   \* number of reset / tick requests accounted
    mpc,        \* BotManager: the call the driver has in progress on it
    ret,        \* BotManager: what the last reset / tick returned
    exhausted,  \* an update has taken self.ticks down to 0
    failed,     \* the handshake has failed
    state,      \* run: the GameState
    needs_reset, \* run: local `needs_reset`
    rpc,        \* run: position in the match loop
    evals,      \* number of eval_tick calls made
    goals,      \* number of eval_tick calls that returned true for a goal
    last,       \* what the last eval_tick did (its return value and events)
    hbs,        \* handle_ball_state: position in it, its locals, turns of its loop
    mir,        \* a value being mirrored: the original, the current, the count
    drv,        \* run: the reset / tick requests of a pass of the loop
    wt          \* the wait of one msg call: its protocol, its arguments, its length

chanVars == <<sync, udisc, uval, epc, eproto, emsg, ewr, expired, discriminant,
              res, calls, timedOut, bpc, bproto, bresp, bwr>>
unitVars == <<hbs, mir, drv, wt>>
gameVars == <<state, needs_reset, rpc, evals, goals, last, unitVars>>
mgrVars == <<ticks, elapsed, overflow, requests, mpc, ret, exhausted, failed,
             gameVars>>
callVars == <<mpc, ret, exhausted, failed>>
vars == <<sync, udisc, uval, epc, eproto, emsg, ewr, expired, discriminant,
          res, calls, timedOut, bpc, bproto, bresp, bwr,
          ticks, elapsed, overflow, requests, mpc, ret, exhausted, failed,
          state, needs_reset, rpc, evals, goals, last, hbs, mir, drv, wt>>

engineVars == <<epc, eproto, emsg, ewr, expired, discriminant, res, calls, timedOut>>
botVars == <<bpc, bproto, bresp, bwr>>

UnionCells == {"disc", "val"}

Result(tag, val) == [tag |-> tag, val |-> val]

\* the strategy callback of protocol p applied to message m; the three
\* callbacks are different functions, and each is injective here so that a
\* response tells which message it answers
Callback(p, m) == 10 * (ProtocolId(p) + 1) + m

(* ------------------------------------------------------------------ *)
(* Game data: config, vectors, GameState                               *)
(* ------------------------------------------------------------------ *)

\* the length of the regular match and of the tie-break, in ticks
MaxTicks == 3
EndgameTicks == 1

\* Lengths and factors are fixed-point numbers counted in units of
\* EPSILON (0.001), so that 1.0 is Unit.
EPSILON == 1
Unit == 1000
COLLISION_MAX_ITERATIONS == 100
NUM_PLAYERS == 4

\* The GameConfig the match is played with: the fields eval_reset,
\* eval_tick and run read, on a small field.
conf ==
    [ max_ticks |-> MaxTicks,
      endgame_ticks |-> EndgameTicks,
      spawn_ball_dist |-> 2 * Unit,
      ball |-> [ friction |-> Unit \div 2,
                 radius |-> Unit \div 2,
                 capture_ticks |-> 1,
                 stagnation_radius |-> Unit,
                 stagnation_ticks |-> 2 ],
      player |-> [ radius |-> Unit,
                   pickup_radius |-> (5 * Unit) \div 2,
                   speed |-> 2 * Unit,
                   pass_speed |-> 8 * Unit,
                   pass_error |-> 10,
                   possession_slowdown |-> (3 * Unit) \div 4 ],
      field |-> [ width |-> 16, height |-> 8 ],
      goal |-> [ height |-> 4, thickness |-> 1 ] ]

\* a / b rounded toward zero, as the float result is when it is cut to the
\* resolution
Quot(a, b) == IF a >= 0 THEN a \div b ELSE 0 - ((0 - a) \div b)

\* the product of two fixed-point numbers
Mul(a, b) == Quot(a * b, Unit)

RECURSIVE SqrtIn(_, _, _)
SqrtIn(n, lo, hi) ==
    IF lo = hi
      THEN lo
      ELSE LET mid == (lo + hi + 1) \div 2
           IN  IF mid * mid <= n THEN SqrtIn(n, mid, hi) ELSE SqrtIn(n, lo, mid - 1)

\* the square root of n, cut to an integer
Sqrt(n) == SqrtIn(n, 0, 46340)

\* Vec2
ZERO == <<0, 0>>
VAdd(a, b) == <<a[1] + b[1], a[2] + b[2]>>
VSub(a, b) == <<a[1] - b[1], a[2] - b[2]>>
VScale(v, k) == <<Mul(v[1], k), Mul(v[2], k)>>
dist_sq(a, b) == (a[1] - b[1]) * (a[1] - b[1]) + (a[2] - b[2]) * (a[2] - b[2])
dist(a, b) == Sqrt(dist_sq(a, b))
norm(v) == Sqrt(v[1] * v[1] + v[2] * v[2])
normalize_or_zero(v) ==
    IF norm(v) = 0 THEN ZERO ELSE <<Quot(v[1] * Unit, norm(v)), Quot(v[2] * Unit, norm(v))>>
\* rotate_deg for the quarter turns
rotate_deg(v, deg) ==
    CASE deg = 0 -> v
      [] deg = 90 -> <<0 - v[2], v[1]>>
      [] deg = 0 - 90 -> <<v[2], 0 - v[1]>>

\* FieldConfig::center, FieldConfig::bottom_right
center == <<Quot(conf.field.width * Unit, 2), Quot(conf.field.height * Unit, 2)>>
bottom_right == <<conf.field.width * Unit, conf.field.height * Unit>>

\* Team, PlayerId
Teams == {"a", "b"}
other(team) == IF team = "a" THEN "b" ELSE "a"
PlayerIds == 0 .. (2 * NUM_PLAYERS - 1)
player_team(id) == IF id < NUM_PLAYERS THEN "a" ELSE "b"
\* Index<Team> for PlayerArray
TeamIds(team) ==
    IF team = "a" THEN 0 .. (NUM_PLAYERS - 1) ELSE NUM_PLAYERS .. (2 * NUM_PLAYERS - 1)

\* BallPossessionState
Free == [kind |-> "Free", owner |-> None, team |-> "none", capture_ticks |-> 0]
Passing(team) == [kind |-> "Passing", owner |-> None, team |-> team, capture_ticks |-> 0]
Possessed(owner, team, capture_ticks) ==
    [kind |-> "Possessed", owner |-> owner, team |-> team,
     capture_ticks |-> capture_ticks]

\* GameState::new(conf)
NewGameState ==
    [ tick |-> 0,
      ball |-> [pos |-> center, vel |-> ZERO, radius |-> conf.ball.radius],
      ball_possession |-> Free,
      ball_stagnation |-> [center |-> center, tick |-> 0],
      players |-> [i \in PlayerIds |->
                     [id |-> i, pos |-> ZERO, dir |-> ZERO,
                      speed |-> conf.player.speed,
                      radius |-> conf.player.radius,
                      pickup_radius |-> conf.player.pickup_radius]],
      score |-> [a |-> 0, b |-> 0] ]

\* run, before the match loop
GameInit ==
    /\ state = NewGameState
    /\ needs_reset = TRUE
    /\ rpc = "top"
    /\ evals = 0
    /\ goals = 0
    /\ last = [ret |-> FALSE, goal |-> FALSE, broken |-> FALSE, covering |-> 0,
               capped |-> FALSE, iterations |-> 0, pushed |-> FALSE,
               pend |-> "none"]

\* BotChannel::new: the region is mapped and sync is BUSY; the backing file
\* is zero-filled by set_len
ChanInit ==
    /\ sync = BUSY
    /\ udisc = 0
    /\ uval = 0
    /\ epc = "idle"
    /\ eproto = Protocols[1]
    /\ emsg = 0
    /\ ewr = {}
    /\ expired = FALSE
    /\ discriminant = None
    /\ res = Result("None", None)
    /\ calls = 0
    /\ timedOut = FALSE
    /\ bpc = "poll"
    /\ bproto = Protocols[1]
    /\ bresp = [disc |-> 0, val |-> 0]
    /\ bwr = {}

\* BotManager::spawn
MgrInit ==
    /\ ticks = U32(TOTAL_COMPUTE_TICKS)
    /\ elapsed = U32(0)
    /\ overflow = FALSE
    /\ requests = 0
    /\ mpc = "spawned"
    /\ ret = "none"
    /\ exhausted = FALSE
    /\ failed = FALSE

\* no call of handle_ball_state is under way
BallIdle ==
    hbs = [pc |-> "idle",
           m |-> [bp |-> Free, ball |-> NewGameState.ball,
                  passes |-> [i \in PlayerIds |-> <<>>],
                  pend |-> "none", broken |-> FALSE],
           from |-> Free, n |-> 0]

\* nothing is being mirrored
MirrorIdle == mir = [n |-> 0, orig |-> <<>>, cur |-> <<>>]

\* no request of the driver is under way
NoRequests == [a |-> "none", b |-> "none"]
RequestsIdle ==
    drv = [pc |-> "handshake", cur |-> "a", n |-> 0, needs_reset |-> TRUE,
           exited |-> [a |-> FALSE, b |-> FALSE],
           hs |-> NoRequests, reset |-> NoRequests, tick |-> NoRequests,
           log |-> [a |-> <<>>, b |-> <<>>], rets |-> <<>>, resets |-> <<>>]

\* no wait is being measured
WaitIdle ==
    wt = [pc |-> "idle", proto |-> "Tick", factor |-> 1, ticks |-> 0,
          base |-> 0, engine_time |-> 0, deadline |-> 0]

UnitInit == BallIdle /\ MirrorIdle /\ RequestsIdle /\ WaitIdle

Init == ChanInit /\ MgrInit /\ GameInit /\ UnitInit


(* ------------------------------------------------------------------ *)
(* Engine side: BotChannel::msg<T>(msg, engine_time)                   *)
(* ------------------------------------------------------------------ *)

\* what a msg call leaves behind when it returns r
MsgReturn(r) ==
    /\ res' = r
    /\ epc' = "idle"
    /\ ewr' = {}
    /\ expired' = FALSE

\* msg without its entry check
MsgEnter_Mut(p) ==
    /\ epc = "idle"
    /\ calls < MaxCalls
    /\ calls' = calls + 1
    /\ eproto' = p
    /\ emsg' = calls + 1
    /\ discriminant' = None
    /\ epc' = "copy"
    /\ ewr' = UnionCells
    /\ UNCHANGED <<res, expired>>
    /\ UNCHANGED <<sync, udisc, uval, timedOut>>
    /\ UNCHANGED botVars
    /\ UNCHANGED mgrVars

\* The entry check: `if sync.load() != Busy { return Err(Malformed) }`.
\* Every call sends a message distinct from those of the earlier calls.
MsgEnter(p) ==
    /\ epc = "idle"
    /\ calls < MaxCalls
    /\ calls' = calls + 1
    /\ eproto' = p
    /\ emsg' = calls + 1
    /\ discriminant' = None
    /\ IF sync # BUSY
         THEN MsgReturn(Result("Malformed", None))
         ELSE /\ epc' = "copy"
              /\ ewr' = UnionCells
              /\ UNCHANGED <<res, expired>>
    /\ UNCHANGED <<sync, udisc, uval, timedOut>>
    /\ UNCHANGED botVars
    /\ UNCHANGED mgrVars

\* copy_nonoverlapping(&T::msg_into_enum(msg), union, 1): one cell of it
MsgCopy(c) ==
    /\ epc = "copy"
    /\ c \in ewr
    /\ ewr' = ewr \ {c}
    /\ IF c = "disc"
         THEN udisc' = MsgVariant(eproto) /\ UNCHANGED uval
         ELSE uval' = emsg /\ UNCHANGED udisc
    /\ epc' = IF ewr' = {} THEN "publish" ELSE "copy"
    /\ UNCHANGED <<sync, eproto, emsg, expired, discriminant, res, calls, timedOut>>
    /\ UNCHANGED botVars
    /\ UNCHANGED mgrVars

\* sync.store(Ready); the wait with its deadline starts
MsgStoreReady ==
    /\ epc = "publish"
    /\ sync' = READY
    /\ epc' = "wait"
    /\ expired' = FALSE
    /\ UNCHANGED <<udisc, uval, eproto, emsg, ewr, discriminant, res, calls, timedOut>>
    /\ UNCHANGED botVars
    /\ UNCHANGED mgrVars

\* a wait without a deadline
DeadlinePass_Mut ==
    /\ epc = "wait"
    /\ FALSE
    /\ UNCHANGED vars

\* time passes the deadline engine_time * T::TIMEOUT_FACTOR of the wait
DeadlinePass ==
    /\ epc = "wait"
    /\ ~expired
    /\ expired' = TRUE
    /\ UNCHANGED <<sync, udisc, uval, epc, eproto, emsg, ewr, discriminant, res,
                   calls, timedOut>>
    /\ UNCHANGED botVars
    /\ UNCHANGED mgrVars

\* poll(sync, Busy) loads BUSY: the wait ends in time (a load of another
\* value changes nothing: poll spins, yields or sleeps and loads again)
MsgPollBusy ==
    /\ epc = "wait"
    /\ sync = BUSY
    /\ epc' = "verify"
    /\ expired' = FALSE
    /\ UNCHANGED <<sync, udisc, uval, eproto, emsg, ewr, discriminant, res, calls,
                   timedOut>>
    /\ UNCHANGED botVars
    /\ UNCHANGED mgrVars

\* an expiry that leaves sync as it is
TimeoutStore_Mut == sync

\* what the map_err closure stores into sync when the wait expires
TimeoutStore == BUSY

\* the wait expires (poll is suspended in yield_now or sleep, so sync need
\* not have been loaded again): store BUSY, return Timeout
MsgTimeout ==
    /\ epc = "wait"
    /\ expired
    /\ sync' = TimeoutStore
    /\ timedOut' = TRUE
    /\ MsgReturn(Result("Timeout", None))
    /\ UNCHANGED <<udisc, uval, eproto, emsg, discriminant, calls>>
    /\ UNCHANGED botVars
    /\ UNCHANGED mgrVars

\* the size and alignment of the mapping are those of its creation, so the
\* two checks pass; then `discriminant = mmap[offset_of!(Shm, union)]` is
\* compared with T::response_discriminant()
MsgVerify ==
    /\ epc = "verify"
    /\ discriminant' = udisc
    /\ IF udisc # response_discriminant(eproto)
         THEN MsgReturn(Result("Malformed", None))
         ELSE /\ epc' = "decode"
              /\ UNCHANGED <<ewr, expired, res>>
    /\ UNCHANGED <<sync, udisc, uval, eproto, emsg, calls, timedOut>>
    /\ UNCHANGED botVars
    /\ UNCHANGED mgrVars

\* Ok(T::enum_into_response(union.clone())): the clone reads the tag again;
\* enum_into_response panics on a variant that is not T's response
MsgDecode ==
    /\ epc = "decode"
    /\ IF udisc = ResponseVariant(eproto)
         THEN MsgReturn(Result("Ok", uval))
         ELSE /\ epc' = "panic"
              /\ UNCHANGED <<ewr, expired, res>>
    /\ UNCHANGED <<sync, udisc, uval, eproto, emsg, discriminant, calls, timedOut>>
    /\ UNCHANGED botVars
    /\ UNCHANGED mgrVars

\* impl Drop for BotChannel
Drop ==
    /\ epc = "idle"
    /\ sync' = FINISHED
    /\ epc' = "dropped"
    /\ UNCHANGED <<udisc, uval, eproto, emsg, ewr, expired, discriminant, res,
                   calls, timedOut>>
    /\ UNCHANGED botVars
    /\ UNCHANGED mgrVars

(* ------------------------------------------------------------------ *)
(* Bot side: loop { chan.handle_msg(&strat).await }                    *)
(* ------------------------------------------------------------------ *)

\* poll(sync, Ready) loads READY (a load of another value, FINISHED
\* included, changes nothing: poll loads again)
BotPollReady ==
    /\ bpc = "poll"
    /\ sync = READY
    /\ bpc' = "match"
    /\ UNCHANGED <<sync, udisc, uval, bproto, bresp, bwr>>
    /\ UNCHANGED engineVars
    /\ UNCHANGED mgrVars

\* the match of Strategy::handle_msg on the union's variant; a variant that
\* is no message panics ("engine sent invalid message")
BotMatch ==
    /\ bpc = "match"
    /\ IF udisc \in MsgVariants
         THEN /\ bproto' = ProtocolOfMsgVariant(udisc)
              /\ bpc' = "call"
         ELSE /\ bpc' = "dead"
              /\ UNCHANGED bproto
    /\ UNCHANGED <<sync, udisc, uval, bresp, bwr>>
    /\ UNCHANGED engineVars
    /\ UNCHANGED mgrVars

\* an arm that calls the first protocol's callback whatever p is
StrategyArm_Mut(p, v) ==
    [disc |-> ResponseVariant(p), val |-> Callback(Protocols[1], v)]

\* the arm of Strategy::handle_msg for the message of protocol p with
\* payload v: ProtocolUnion::<p>Response((self.on_<p>)(v))
StrategyArm(p, v) ==
    [disc |-> ResponseVariant(p), val |-> Callback(p, v)]

\* the callback runs on the payload it is handed by reference
BotCall ==
    /\ bpc = "call"
    /\ bresp' = StrategyArm(bproto, uval)
    /\ bwr' = UnionCells
    /\ bpc' = "assign"
    /\ UNCHANGED <<sync, udisc, uval, bproto>>
    /\ UNCHANGED engineVars
    /\ UNCHANGED mgrVars

\* what handle_msg stores into sync when the response is written
BotStore == BUSY

\* `*msg = response`: one cell of it
BotAssign(c) ==
    /\ bpc = "assign"
    /\ c \in bwr
    /\ bwr' = bwr \ {c}
    /\ IF c = "disc"
         THEN udisc' = bresp.disc /\ UNCHANGED uval
         ELSE uval' = bresp.val /\ UNCHANGED udisc
    /\ bpc' = IF bwr' = {} THEN "store" ELSE "assign"
    /\ UNCHANGED <<sync, bproto, bresp>>
    /\ UNCHANGED engineVars
    /\ UNCHANGED mgrVars

\* sync.store(Busy); handle_msg returns (its locals are gone) and the loop
\* calls it again
BotStoreBusy ==
    /\ bpc = "store"
    /\ sync' = BotStore
    /\ bpc' = "poll"
    /\ bproto' = Protocols[1]
    /\ bresp' = [disc |-> 0, val |-> 0]
    /\ UNCHANGED <<udisc, uval, bwr>>
    /\ UNCHANGED engineVars
    /\ UNCHANGED mgrVars

\* the bot process exits or is killed, wherever it is
BotExit ==
    /\ bpc # "dead"
    /\ bpc' = "dead"
    /\ bproto' = Protocols[1]
    /\ bresp' = [disc |-> 0, val |-> 0]
    /\ bwr' = {}
    /\ UNCHANGED <<sync, udisc, uval>>
    /\ UNCHANGED engineVars
    /\ UNCHANGED mgrVars

EngineStep ==
    \/ \E c \in UnionCells : MsgCopy(c)
    \/ MsgStoreReady
    \/ MsgPollBusy
    \/ MsgTimeout
    \/ MsgVerify
    \/ MsgDecode

BotStep ==
    \/ BotPollReady
    \/ BotMatch
    \/ BotCall
    \/ \E c \in UnionCells : BotAssign(c)
    \/ BotStoreBusy

Next ==
    \/ \E p \in ProtocolNames : MsgEnter(p)
    \/ \E c \in UnionCells : MsgCopy(c)
    \/ MsgStoreReady
    \/ DeadlinePass
    \/ MsgPollBusy
    \/ MsgTimeout
    \/ MsgVerify
    \/ MsgDecode
    \/ Drop
    \/ BotPollReady
    \/ BotMatch
    \/ BotCall
    \/ \E c \in UnionCells : BotAssign(c)
    \/ BotStoreBusy
    \/ BotExit

Spec == Init /\ [][Next]_vars


(* ------------------------------------------------------------------ *)
(* A bot that does not keep to handle_msg                              *)
(* ------------------------------------------------------------------ *)

\* The bot is a separate process with the region mapped writable: one
\* that does not follow the protocol can store any status into sync.
BotStoreAny(v) ==
    /\ bpc # "dead"
    /\ sync' = v
    /\ UNCHANGED <<udisc, uval>>
    /\ UNCHANGED botVars
    /\ UNCHANGED engineVars
    /\ UNCHANGED mgrVars

NextRogue ==
    \/ Next
    \/ \E v \in {READY, FINISHED} : BotStoreAny(v)

SpecRogue == Init /\ [][NextRogue]_vars

(* ------------------------------------------------------------------ *)
(* Fairness                                                            *)
(* ------------------------------------------------------------------ *)

\* The engine task is scheduled and its timers fire: a msg call that can
\* take a step takes one, and the deadline of a wait passes.  Nothing is
\* assumed of the bot.
LiveSpec == Spec /\ WF_vars(EngineStep) /\ WF_vars(DeadlinePass)

\* The bot process is scheduled too: while it lives, handle_msg goes on.
LiveSpecBot == LiveSpec /\ WF_vars(BotStep)

(* ------------------------------------------------------------------ *)
(* Bot manager: the compute budget                                     *)
(* ------------------------------------------------------------------ *)

\* The update of self.ticks after a request that took e baseline ticks,
\* in u32 arithmetic, left to right as written.
\* BudgetUpdate with the min of the else branch left out
BudgetUpdate_Mut(t, e) ==
    IF Le(e, U32(DELAY_TICKS))
      THEN LET s == Add(t, U32(DELAY_TICKS))
               d == Sub(s.val, e)
           IN  [val |-> min(U32(TOTAL_COMPUTE_TICKS), d.val),
                wrapped |-> s.wrapped \/ d.wrapped]
      ELSE LET x == Sub(e, U32(DELAY_TICKS))
               d == Sub(t, x.val)
           IN  [val |-> d.val, wrapped |-> x.wrapped \/ d.wrapped]

BudgetUpdate(t, e) ==
    IF Le(e, U32(DELAY_TICKS))
      THEN LET s == Add(t, U32(DELAY_TICKS))
               d == Sub(s.val, e)
           IN  [val |-> min(U32(TOTAL_COMPUTE_TICKS), d.val),
                wrapped |-> s.wrapped \/ d.wrapped]
      ELSE LET x == Sub(e, U32(DELAY_TICKS))
               m == min(t, x.val)
               d == Sub(t, m)
           IN  [val |-> d.val, wrapped |-> x.wrapped \/ d.wrapped]

\* `time.elapsed().div_duration_f64(engine_time) as u32`: the cast
\* saturates, so every u32 can come out, U32_MAX included (engine_time = 0)
ElapsedSamples ==
    { U32(0), U32(1), U32(DELAY_TICKS - 1), U32(DELAY_TICKS), U32(DELAY_TICKS + 1),
      U32(DELAY_TICKS + 2), U32(52000), U32(Limb - 1), U32(Limb),
      U32(TOTAL_COMPUTE_TICKS + DELAY_TICKS - 1),
      U32(TOTAL_COMPUTE_TICKS + DELAY_TICKS),
      U32(TOTAL_COMPUTE_TICKS + DELAY_TICKS + 1),
      <<Limb \div 2, 0>>, U32_MAX }

\* BotManager::reset and BotManager::tick, from `let elapsed` on: the two
\* end with the same update
MgrAccount(e) ==
    /\ requests < MaxRequests
    /\ requests' = requests + 1
    /\ elapsed' = e
    /\ ticks' = BudgetUpdate(ticks, e).val
    /\ overflow' = BudgetUpdate(ticks, e).wrapped
    /\ UNCHANGED callVars
    /\ UNCHANGED gameVars
    /\ UNCHANGED chanVars


\* BotManager::handshake: a failed handshake sets self.ticks = 0
MgrHandshakeFailed ==
    /\ requests = 0
    /\ ticks # U32(0)
    /\ ticks' = U32(0)
    /\ UNCHANGED <<elapsed, overflow, requests>>
    /\ UNCHANGED callVars
    /\ UNCHANGED gameVars
    /\ UNCHANGED chanVars

NextBudget ==
    \/ MgrHandshakeFailed
    \/ \E e \in ElapsedSamples : MgrAccount(e)

SpecBudget == Init /\ [][NextBudget]_vars

(* ------------------------------------------------------------------ *)
(* Bot manager: handshake, reset and tick over the channel             *)
(* ------------------------------------------------------------------ *)

\* The magic the handshake expects: what the sample bot's on_handshake
\* returns for the handshake message, the first message of the channel.
HANDSHAKE_BOT == Callback("Handshake", 1)

\* the protocols of BotManager::reset and BotManager::tick
RequestNames == {"Reset", "Tick"}

\* msg up to its first await, called by the manager: the entry check and,
\* when it passes, the start of the copy
MsgEntry(p) ==
    /\ epc = "idle"
    /\ calls' = calls + 1
    /\ eproto' = p
    /\ emsg' = calls + 1
    /\ discriminant' = None
    /\ IF sync # BUSY
         THEN MsgReturn(Result("Malformed", None))
         ELSE /\ epc' = "copy"
              /\ ewr' = UnionCells
              /\ UNCHANGED <<res, expired>>
    /\ UNCHANGED <<sync, udisc, uval, timedOut>>
    /\ UNCHANGED botVars

\* self.process.try_wait().map_or(true, |status| status.is_some())
exited == bpc = "dead"

\* self.process.kill().await: the child is killed and reaped
ProcessKill ==
    /\ bpc' = "dead"
    /\ bproto' = Protocols[1]
    /\ bresp' = [disc |-> 0, val |-> 0]
    /\ bwr' = {}

\* BotManager::handshake up to the await of msg
MgrHandshakeCall ==
    /\ mpc = "spawned"
    /\ mpc' = "Handshake"
    /\ MsgEntry("Handshake")
    /\ UNCHANGED <<ticks, elapsed, overflow, requests, ret, exhausted, failed>>
    /\ UNCHANGED gameVars

\* a handshake that sets ticks to 0 on failure and leaves the child running
MgrHandshakeReturn_Mut ==
    /\ mpc = "Handshake"
    /\ epc = "idle"
    /\ mpc' = "idle"
    /\ IF res.tag = "Ok" /\ res.val = HANDSHAKE_BOT
         THEN UNCHANGED <<ticks, failed>>
         ELSE ticks' = U32(0) /\ failed' = TRUE
    /\ UNCHANGED botVars
    /\ UNCHANGED <<sync, udisc, uval>>
    /\ UNCHANGED engineVars
    /\ UNCHANGED <<elapsed, overflow, requests, ret, exhausted>>
    /\ UNCHANGED gameVars

\* BotManager::handshake from the return of msg on: an Err of msg (map_err)
\* and an Ok value other than HANDSHAKE_BOT set self.ticks = 0, and in
\* both cases the closure chain yields false and the child is killed
MgrHandshakeReturn ==
    /\ mpc = "Handshake"
    /\ epc = "idle"
    /\ mpc' = "idle"
    /\ IF res.tag = "Ok" /\ res.val = HANDSHAKE_BOT
         THEN /\ UNCHANGED <<ticks, failed>>
              /\ UNCHANGED botVars
         ELSE /\ ticks' = U32(0)
              /\ failed' = TRUE
              /\ ProcessKill
    /\ UNCHANGED <<sync, udisc, uval>>
    /\ UNCHANGED engineVars
    /\ UNCHANGED <<elapsed, overflow, requests, ret, exhausted>>
    /\ UNCHANGED gameVars

\* reset / tick without the exited check
MgrRequest_Mut(p) ==
    /\ mpc = "idle"
    /\ requests < MaxRequests
    /\ mpc' = p
    /\ MsgEntry(p)
    /\ UNCHANGED <<ticks, elapsed, overflow, requests, ret, exhausted, failed>>
    /\ UNCHANGED gameVars

\* BotManager::reset and BotManager::tick up to the await of msg: a child
\* that has exited makes the call return Default::default() at once;
\* otherwise msg is called with the deadline self.ticks * engine_time
MgrRequest(p) ==
    /\ mpc = "idle"
    /\ requests < MaxRequests
    /\ IF exited
         THEN /\ ret' = "defaults"
              /\ requests' = requests + 1
              /\ UNCHANGED <<ticks, elapsed, overflow, mpc, exhausted, failed>>
              /\ UNCHANGED chanVars
         ELSE /\ mpc' = p
              /\ MsgEntry(p)
              /\ UNCHANGED <<ticks, elapsed, overflow, requests, ret, exhausted,
                             failed>>
    /\ UNCHANGED gameVars

\* the elapsed times a request of the manager is measured to have taken
MgrElapsed ==
    {U32(0), U32(DELAY_TICKS + 1), U32(TOTAL_COMPUTE_TICKS + DELAY_TICKS)}

\* BotManager::reset and BotManager::tick from the return of msg on:
\* unwrap_or_else turns every Err into Default::default(), then the budget
\* is updated with the measured time.  A wait that expired lasted its
\* deadline, self.ticks * engine_time * T::TIMEOUT_FACTOR, so the time
\* measured over it is no less than self.ticks baseline ticks.
MgrReturn(e) ==
    /\ mpc \in RequestNames
    /\ epc = "idle"
    /\ res.tag = "Timeout" => Le(ticks, e)
    /\ mpc' = "idle"
    /\ ret' = IF res.tag = "Ok" THEN "value" ELSE "defaults"
    /\ requests' = requests + 1
    /\ elapsed' = e
    /\ ticks' = BudgetUpdate(ticks, e).val
    /\ overflow' = BudgetUpdate(ticks, e).wrapped
    /\ exhausted' = (exhausted \/ (~Le(e, U32(DELAY_TICKS)) /\ ticks' = U32(0)))
    /\ UNCHANGED failed
    /\ UNCHANGED chanVars
    /\ UNCHANGED gameVars

\* the on_handshake callback of a bot that returns another value than
\* HANDSHAKE_BOT
BotCallOther ==
    /\ bpc = "call"
    /\ bproto = "Handshake"
    /\ bresp' = [disc |-> ResponseVariant(bproto), val |-> 0]
    /\ bpc' = "assign"
    /\ bwr' = UnionCells
    /\ UNCHANGED bproto
    /\ UNCHANGED <<sync, udisc, uval>>
    /\ UNCHANGED engineVars
    /\ UNCHANGED mgrVars

NextMgr ==
    \/ MgrHandshakeCall
    \/ MgrHandshakeReturn
    \/ \E p \in RequestNames : MgrRequest(p)
    \/ \E e \in MgrElapsed : MgrReturn(e)
    \/ \E c \in UnionCells : MsgCopy(c)
    \/ MsgStoreReady
    \/ DeadlinePass
    \/ MsgPollBusy
    \/ MsgTimeout
    \/ MsgVerify
    \/ MsgDecode
    \/ BotPollReady
    \/ BotMatch
    \/ BotCall
    \/ BotCallOther
    \/ \E c \in UnionCells : BotAssign(c)
    \/ BotStoreBusy
    \/ BotExit

SpecMgr == Init /\ [][NextMgr]_vars

\* the same with a bot that does not keep to handle_msg
NextMgrRogue ==
    \/ NextMgr
    \/ \E v \in {READY, FINISHED} : BotStoreAny(v)

SpecMgrRogue == Init /\ [][NextMgrRogue]_vars


(* ------------------------------------------------------------------ *)
(* Game: eval_reset and eval_tick                                      *)
(* ------------------------------------------------------------------ *)

\* StateOption::None of PlayerAction.pass
NoPass == <<>>

clamp(x, lo, hi) == IF x < lo THEN lo ELSE IF x > hi THEN hi ELSE x

\* the pickup circle of player p covers the point c
covers(p, c) == dist_sq(p.pos, c) <= p.pickup_radius * p.pickup_radius

\* some player of `team` covers the point c
team_covers(players, team, c) == \E i \in TeamIds(team) : covers(players[i], c)

\* What rand_player_iter(..).min_by(closer_pickup) can yield over the
\* players `ids`: the comparison of two players both within
\* pickup_radius + 1.0 of c is a coin flip, so any of those can come out
\* as the minimum; without such a player it is one of the least
\* dist - pickup_radius, the first of them in the shuffled order.
closer_pickup(players, ids, c) ==
    LET pickup(i) == dist(players[i].pos, c) - players[i].pickup_radius
        near == {i \in ids :
                   dist_sq(players[i].pos, c) <=
                     (players[i].pickup_radius + Unit) * (players[i].pickup_radius + Unit)}
    IN  IF near # {}
          THEN near
          ELSE {i \in ids : \A j \in ids : pickup(i) <= pickup(j)}

\* the attachment point of the ball on its owner
attach_Mut(owner, ball) == owner.pos

attach(owner, ball) ==
    VAdd(owner.pos, VScale(normalize_or_zero(owner.dir), owner.radius + ball.radius))

\* the angles drawn for rng.random_range(-pass_error..pass_error), in degrees
PassErrors == {d \in {0 - 90, 0, 90} : 0 - conf.player.pass_error <= d /\ d < conf.player.pass_error}

\* a sweep that counts one tick however many opponents are on the ball
capture_sweep_Mut(players, bp, ball) ==
    IF \E i \in TeamIds(other(bp.team)) : covers(players[i], ball.pos)
      THEN bp.capture_ticks + 1
      ELSE IF bp.capture_ticks > 0 THEN bp.capture_ticks - 1 ELSE bp.capture_ticks

\* handle_ball_state, the sweep before the loop: the capture count a
\* Possessed state has after it
capture_sweep(players, bp, ball) ==
    LET capturing == {i \in TeamIds(other(bp.team)) : covers(players[i], ball.pos)}
    IN  IF capturing # {}
          THEN bp.capture_ticks + Cardinality(capturing)
          ELSE IF bp.capture_ticks > 0 THEN bp.capture_ticks - 1 ELSE bp.capture_ticks

\* The transfer of a possession whose capture count is over the limit:
\* one that never happens
capture_transfer_Mut(players, m) == {}

\* a transfer that hands the capture count over with the ball
capture_transfer_Keep(players, m) ==
    IF m.bp.capture_ticks > conf.ball.capture_ticks
      THEN {[m EXCEPT !.bp = Possessed(o, other(m.bp.team), m.bp.capture_ticks),
                      !.pend = "none"] :
              o \in closer_pickup(players, TeamIds(other(m.bp.team)), m.ball.pos)}
      ELSE {}

\* `else if *capture_ticks > conf.ball.capture_ticks`: the possession goes
\* to the closest opponent
capture_transfer(players, m) ==
    IF m.bp.capture_ticks > conf.ball.capture_ticks
      THEN {[m EXCEPT !.bp = Possessed(o, other(m.bp.team), 0), !.pend = "none"] :
              o \in closer_pickup(players, TeamIds(other(m.bp.team)), m.ball.pos)}
      ELSE {}

\* the pass of the owner, with the capture count looked at first
owner_pass_Mut(m) ==
    IF m.bp.capture_ticks > conf.ball.capture_ticks
      THEN NoPass
      ELSE m.passes[m.bp.owner]

\* `actions[*owner as usize].pass`
owner_pass(m) == m.passes[m.bp.owner]

\* One turn of the `while !resolved` loop of handle_ball_state on
\* m = [bp, ball, passes, pend, broken]: every [m, resolved] it can end in.
\* pend is the team whose pass the ball has not yet left (the ball is
\* still covered by one of its players), broken records a catch by that
\* team.
ball_state_turn(players, m) ==
    CASE m.bp.kind = "Possessed" ->
           LET owner == m.bp.owner
               pass == owner_pass(m)
               cleared == [m EXCEPT !.passes[owner] = NoPass]
           IN  IF pass # NoPass
                 THEN IF norm(pass) = 0
                        THEN {[m |-> cleared, resolved |-> FALSE]}
                        ELSE {[m |-> [cleared EXCEPT
                                   !.bp = Passing(m.bp.team),
                                   !.pend = m.bp.team,
                                   !.ball.vel =
                                       VScale(rotate_deg(
                                                  VScale(<<Quot(pass[1] * Unit, norm(pass)),
                                                           Quot(pass[2] * Unit, norm(pass))>>,
                                                         clamp(norm(pass), EPSILON, Unit)),
                                                  err),
                                              conf.player.pass_speed),
                                   !.ball.pos = attach(players[owner], m.ball)],
                               resolved |-> FALSE] : err \in PassErrors}
                 ELSE IF capture_transfer(players, m) # {}
                        THEN {[m |-> t, resolved |-> FALSE] : t \in capture_transfer(players, m)}
                        ELSE {[m |-> m, resolved |-> TRUE]}
      [] m.bp.kind = "Passing" ->
           LET team == m.bp.team
               caught(o) == [m |-> [m EXCEPT !.bp = Possessed(o, other(team), 0),
                                             !.pend = "none"],
                             resolved |-> FALSE]
               released == [m |-> [m EXCEPT !.bp = Free,
                                            !.pend = IF team_covers(players, team, m.ball.pos)
                                                       THEN team ELSE "none"],
                            resolved |-> FALSE]
           IN  UNION {IF covers(players[o], m.ball.pos)
                        THEN {caught(o)}
                        ELSE {IF ~covers(players[t], m.ball.pos)
                                THEN released
                                ELSE [m |-> m, resolved |-> TRUE] :
                              t \in closer_pickup(players, TeamIds(team), m.ball.pos)} :
                      o \in closer_pickup(players, TeamIds(other(team)), m.ball.pos)}
      [] m.bp.kind = "Free" ->
           {IF covers(players[cl], m.ball.pos)
              THEN [m |-> [m EXCEPT
                             !.bp = Possessed(cl, player_team(cl), 0),
                             !.pend = "none",
                             !.broken = m.broken \/
                                        (m.pend = player_team(cl) /\
                                         team_covers(players, m.pend, m.ball.pos))],
                    resolved |-> FALSE]
              ELSE [m |-> m, resolved |-> TRUE] :
            cl \in closer_pickup(players, PlayerIds, m.ball.pos)}

\* the `while !resolved` loop: every m it can end in
RECURSIVE ball_state_loop(_, _)
ball_state_loop(players, m) ==
    UNION {IF r.resolved THEN {r.m} ELSE ball_state_loop(players, r.m) :
           r \in ball_state_turn(players, m)}

\* handle_ball_state(state, conf, actions): every [bp, ball, passes, pend,
\* broken] it can end in; `pend` is the team of a pass the ball had not
\* left when the tick began.
handle_ball_state(s, passes, pend) ==
    LET swept == IF s.ball_possession.kind = "Possessed"
                   THEN [s.ball_possession EXCEPT
                           !.capture_ticks =
                               capture_sweep(s.players, s.ball_possession, s.ball)]
                   ELSE s.ball_possession
    IN  ball_state_loop(s.players,
                        [bp |-> swept, ball |-> s.ball, passes |-> passes,
                         pend |-> pend, broken |-> FALSE])

\* the cap on the iterations of handle_player_collision
\* (COLLISION_MAX_ITERATIONS), scaled down so that pile-ups reach it
MaxIterations == 3

\* all pairs of player ids
pairs == {pr \in PlayerIds \X PlayerIds : pr[1] < pr[2]}

\* `dist_sq < min_dist.powi(2)` for the pair pr
colliding(players, pr) ==
    dist_sq(players[pr[1]].pos, players[pr[2]].pos) <
      (players[pr[1]].radius + players[pr[2]].radius) *
      (players[pr[1]].radius + players[pr[2]].radius)

\* the directions drawn for Vec2::from_angle_rad(random_range(0.0..2 PI))
RandomDirs == {<<Unit, 0>>, <<0, Unit>>, <<0 - Unit, 0>>, <<0, 0 - Unit>>}

\* the directions dv of the correction of a colliding pair
pair_dirs(players, pr) ==
    IF players[pr[1]].pos = players[pr[2]].pos
      THEN RandomDirs
      ELSE {normalize_or_zero(VSub(players[pr[2]].pos, players[pr[1]].pos))}

\* the correction of a colliding pair along dv
push_apart(players, pr, dv) ==
    LET p1 == players[pr[1]]
        p2 == players[pr[2]]
        diff == (p1.radius + p2.radius) - dist(p1.pos, p2.pos)
        correction == VScale(dv, Quot(diff, 2) + EPSILON)
    IN  [players EXCEPT ![pr[1]].pos = VSub(p1.pos, correction),
                        ![pr[2]].pos = VAdd(p2.pos, correction)]

\* One pass over the shuffled pairs: every [players, moved] it can end in.
\* `remaining` are the pairs not yet corrected in this pass; a pair that
\* did not collide at some earlier point of the pass (`passed`) may have
\* had its turn then, so it may be skipped now that it collides.
RECURSIVE pair_pass(_, _, _, _)
pair_pass(players, remaining, passed, moved) ==
    LET hit == {pr \in remaining : colliding(players, pr)}
    IN  IF hit = {}
          THEN {[players |-> players, moved |-> moved]}
          ELSE UNION {
                 UNION {pair_pass(push_apart(players, pr, dv), remaining \ {pr},
                                  passed \cup (remaining \ hit), TRUE) :
                        dv \in pair_dirs(players, pr)}
                 \cup (IF pr \in passed
                         THEN pair_pass(players, remaining \ {pr}, passed, moved)
                         ELSE {}) :
                 pr \in hit}

\* a wall pass with the sign of EPSILON slipped
wall_clamp_Mut(p) ==
    LET br == bottom_right
        x1 == IF p.pos[1] - p.radius < 0 THEN p.radius - EPSILON ELSE p.pos[1]
        x2 == IF x1 + p.radius > br[1] THEN br[1] - p.radius + EPSILON ELSE x1
        y1 == IF p.pos[2] - p.radius < 0 THEN p.radius - EPSILON ELSE p.pos[2]
        y2 == IF y1 + p.radius > br[2] THEN br[2] - p.radius + EPSILON ELSE y1
    IN  [p EXCEPT !.pos = <<x2, y2>>]

\* player on wall collision, for one player
wall_clamp(p) ==
    LET br == bottom_right
        x1 == IF p.pos[1] - p.radius < 0 THEN p.radius + EPSILON ELSE p.pos[1]
        x2 == IF x1 + p.radius > br[1] THEN br[1] - p.radius - EPSILON ELSE x1
        y1 == IF p.pos[2] - p.radius < 0 THEN p.radius + EPSILON ELSE p.pos[2]
        y2 == IF y1 + p.radius > br[2] THEN br[2] - p.radius - EPSILON ELSE y1
    IN  [p EXCEPT !.pos = <<x2, y2>>]

\* a loop that stops after its first iteration
loop_goes_on_Mut(moved, iterations) == FALSE

\* `!resolved && iterations < COLLISION_MAX_ITERATIONS`, after an iteration
\* that made a correction (moved) or none
loop_goes_on(moved, iterations) == moved /\ iterations < MaxIterations

\* The `while !resolved && iterations < COLLISION_MAX_ITERATIONS` loop,
\* all the player arrays `open` of one iteration count at a time: every
\* [players, capped, iterations] the loop can end in (capped: its last
\* iteration made a correction; iterations: the iterations it ran).
RECURSIVE collision_loop(_, _, _)
collision_loop(open, done, iterations) ==
    IF open = {}
      THEN done
      ELSE LET outs == UNION {
                   {LET walled == [i \in PlayerIds |-> wall_clamp(o.players[i])]
                    IN  [players |-> walled,
                         moved |-> o.moved \/ walled # o.players] :
                    o \in pair_pass(p, pairs, {}, FALSE)} :
                   p \in open}
               on == {x \in outs : loop_goes_on(x.moved, iterations + 1)}
           IN  collision_loop(
                   {x.players : x \in on},
                   done \cup {[players |-> x.players, capped |-> x.moved,
                               iterations |-> iterations + 1] :
                              x \in outs \ on},
                   iterations + 1)

handle_player_collision(players) == collision_loop({players}, {}, 0)

\* eval_tick, the branch after handle_player_collision: the ball of a
\* Possessed state is put on its owner, any other ball moves and bounces
ball_motion(bp, ball, players) ==
    IF bp.kind = "Possessed"
      THEN [ball EXCEPT !.vel = ZERO, !.pos = attach(players[bp.owner], ball)]
      ELSE LET pos == VAdd(ball.pos, ball.vel)
               vel == VScale(ball.vel, conf.ball.friction)
               bounce == 0 - Mul(conf.ball.friction, conf.ball.friction)
               left == ball.radius
               right == conf.field.width * Unit - ball.radius
               top == ball.radius
               bottom == conf.field.height * Unit - ball.radius
               x1 == IF pos[1] < left THEN left + EPSILON ELSE pos[1]
               vx1 == IF pos[1] < left THEN Mul(vel[1], bounce) ELSE vel[1]
               x2 == IF x1 > right THEN right - EPSILON ELSE x1
               vx2 == IF x1 > right THEN Mul(vx1, bounce) ELSE vx1
               y1 == IF pos[2] < top THEN top + EPSILON ELSE pos[2]
               vy1 == IF pos[2] < top THEN Mul(vel[2], bounce) ELSE vel[2]
               y2 == IF y1 > bottom THEN bottom - EPSILON ELSE y1
               vy2 == IF y1 > bottom THEN Mul(vy1, bounce) ELSE vy1
           IN  [ball EXCEPT !.pos = <<x2, y2>>, !.vel = <<vx2, vy2>>]

\* a scoring that does not look at the goal opening
handle_scoring_NoOpening(s) ==
    IF s.ball.pos[1] - s.ball.radius <= conf.goal.thickness * Unit
      THEN [state |-> [s EXCEPT !.score.b = @ + 1], ret |-> TRUE]
      ELSE IF s.ball.pos[1] + s.ball.radius >=
                (conf.field.width - conf.goal.thickness) * Unit
             THEN [state |-> [s EXCEPT !.score.a = @ + 1], ret |-> TRUE]
             ELSE [state |-> s, ret |-> FALSE]

\* a scoring that counts a goal for both teams
handle_scoring_Mut(s) ==
    LET h == conf.goal.height * Unit
        in_goal == center[2] - Quot(h, 2) <= s.ball.pos[2] /\
                   s.ball.pos[2] < center[2] + Quot(h, 2)
    IN  IF in_goal /\ s.ball.pos[1] - s.ball.radius <= conf.goal.thickness * Unit
          THEN [state |-> [s EXCEPT !.score.b = @ + 1, !.score.a = @ + 1], ret |-> TRUE]
          ELSE IF in_goal /\ s.ball.pos[1] + s.ball.radius >=
                               (conf.field.width - conf.goal.thickness) * Unit
                 THEN [state |-> [s EXCEPT !.score.a = @ + 1], ret |-> TRUE]
                 ELSE [state |-> s, ret |-> FALSE]

\* handle_scoring: [state, ret]
handle_scoring(s) ==
    LET h == conf.goal.height * Unit
        in_goal == center[2] - Quot(h, 2) <= s.ball.pos[2] /\
                   s.ball.pos[2] < center[2] + Quot(h, 2)
    IN  IF ~in_goal
          THEN [state |-> s, ret |-> FALSE]
          ELSE IF s.ball.pos[1] - s.ball.radius <= conf.goal.thickness * Unit
                 THEN [state |-> [s EXCEPT !.score.b = @ + 1], ret |-> TRUE]
                 ELSE IF s.ball.pos[1] + s.ball.radius >=
                           (conf.field.width - conf.goal.thickness) * Unit
                        THEN [state |-> [s EXCEPT !.score.a = @ + 1], ret |-> TRUE]
                        ELSE [state |-> s, ret |-> FALSE]

\* a test that takes the ball for in place wherever it is
in_place_Mut(s) == TRUE

\* handle_ball_stagnation: the ball is within stagnation_radius of the
\* centre of the stagnation record
in_place(s) ==
    dist_sq(s.ball.pos, s.ball_stagnation.center) <=
        conf.ball.stagnation_radius * conf.ball.stagnation_radius

\* a stagnation check that asks for more than stagnation_ticks
handle_ball_stagnation_Mut(s) ==
    LET stag == IF in_place(s)
                  THEN [s.ball_stagnation EXCEPT !.tick = @ + 1]
                  ELSE [center |-> s.ball.pos, tick |-> 0]
    IN  [state |-> [s EXCEPT !.ball_stagnation = stag],
         ret |-> stag.tick > conf.ball.stagnation_ticks]

\* handle_ball_stagnation: [state, ret]
handle_ball_stagnation(s) ==
    LET stag == IF in_place(s)
                  THEN [s.ball_stagnation EXCEPT !.tick = @ + 1]
                  ELSE [center |-> s.ball.pos, tick |-> 0]
    IN  [state |-> [s EXCEPT !.ball_stagnation = stag],
         ret |-> stag.tick >= conf.ball.stagnation_ticks]

\* the tick count eval_tick leaves, one that stays when the tick scores
next_tick_Mut(s, scored) == IF scored THEN s.tick ELSE s.tick + 1

\* `state.tick += 1`
next_tick(s, scored) == s.tick + 1

\* eval_tick from `state.tick += 1` on, for the state s the phases before
\* have left: [state, ret, goal]
tick_end(s) ==
    LET scored == handle_scoring(s)
        counted == [scored.state EXCEPT !.tick = next_tick(s, scored.ret)]
        stagnant == handle_ball_stagnation(counted)
    IN  IF scored.ret
          THEN [state |-> counted, ret |-> TRUE, goal |-> TRUE]
          ELSE [state |-> stagnant.state, ret |-> stagnant.ret, goal |-> FALSE]

\* eval_tick(state, conf, actions), with `pend` the team of a pass the
\* ball had not left when the tick began: every outcome [state, ret, goal,
\* broken, covering, capped, iterations, pushed, pend]; covering counts the opponents
\* on the ball in the sweep, pushed tells that the collisions moved the
\* owner of the ball
eval_tick(s, actions, pend) ==
    LET dirs == [i \in PlayerIds |->
                   VScale(normalize_or_zero(actions[i].dir),
                          clamp(norm(actions[i].dir), 0, Unit))]
        passes == [i \in PlayerIds |-> actions[i].pass]
        covering == IF s.ball_possession.kind = "Possessed"
                      THEN Cardinality({i \in TeamIds(other(s.ball_possession.team)) :
                                          covers(s.players[i], s.ball.pos)})
                      ELSE 0
        moved(hb) ==
            [i \in PlayerIds |->
               LET speed_modifier == IF hb.bp.kind = "Possessed" /\ hb.bp.owner = i
                                       THEN conf.player.possession_slowdown
                                       ELSE Unit
                   dir == VScale(dirs[i], speed_modifier)
               IN  [s.players[i] EXCEPT
                      !.dir = dir,
                      !.pos = VAdd(s.players[i].pos, VScale(dir, s.players[i].speed))]]
        finish(hb, col) ==
            LET ball == ball_motion(hb.bp, hb.ball, col.players)
                e == tick_end([s EXCEPT !.ball_possession = hb.bp,
                                        !.ball = ball,
                                        !.players = col.players])
            IN  [state |-> e.state, ret |-> e.ret, goal |-> e.goal,
                 broken |-> hb.broken, covering |-> covering,
                 capped |-> col.capped, iterations |-> col.iterations,
                 pushed |-> hb.bp.kind = "Possessed" /\
                            col.players[hb.bp.owner].pos # moved(hb)[hb.bp.owner].pos,
                 pend |-> IF hb.pend # "none" /\
                             team_covers(col.players, hb.pend, ball.pos)
                            THEN hb.pend ELSE "none"]
    IN  UNION {{finish(hb, col) : col \in handle_player_collision(moved(hb))} :
               hb \in handle_ball_state(s, passes, pend)}

\* The f32 that is not a number, which a bot may store as a coordinate
\* of its formation: a value outside the range of the coordinates
NaN == 0 - 1000000000

\* f32::clamp: NaN for NaN; every comparison with NaN is false, so the
\* test `pos.dist_sq(&center) < ...` of eval_reset fails for it
clamp_f32(x, lo, hi) == IF x = NaN THEN NaN ELSE clamp(x, lo, hi)

\* eval_reset(state, conf, formation)
eval_reset(s, formation) ==
    LET placed(i) ==
            LET team == player_team(i)
                dx == IF team = "a" THEN 0 ELSE center[1]
                want == formation[team][(i % NUM_PLAYERS) + 1]
                pos == <<clamp_f32(want[1], dx, dx + center[1]),
                         clamp_f32(want[2], 0, conf.field.height * Unit)>>
                away == IF pos = center
                          THEN <<IF dx - EPSILON < 0 THEN 0 - Unit ELSE Unit, 0>>
                          ELSE normalize_or_zero(VSub(pos, center))
            IN  IF pos[1] = NaN \/ pos[2] = NaN
                  THEN pos
                  ELSE IF dist_sq(pos, center) < conf.spawn_ball_dist * conf.spawn_ball_dist
                         THEN VAdd(center, VScale(away, conf.spawn_ball_dist))
                         ELSE pos
    IN  [s EXCEPT
           !.ball = [pos |-> center, vel |-> ZERO, radius |-> conf.ball.radius],
           !.ball_possession = Free,
           !.ball_stagnation = [center |-> center, tick |-> 0],
           !.players = [i \in PlayerIds |->
                          [s.players[i] EXCEPT !.pos = placed(i), !.dir = ZERO]]]

(* ------------------------------------------------------------------ *)
(* The match loop of run                                               *)
(* ------------------------------------------------------------------ *)

\* a point given in half units
Pt(hx, hy) == <<hx * (Unit \div 2), hy * (Unit \div 2)>>

\* The formations reset returns for team A (as returned) and for team B
\* (mirrored back by run).  Team A: a player next to the ball, a team
\* mate three units behind and two players in a corner, either one
\* nearly on top of the other or apart.  Team B: three players around
\* the ball, one in a corner.
FormationsA ==
    { <<Pt(12, 8), Pt(6, 8), Pt(3, 3), <<(17 * Unit) \div 10, (3 * Unit) \div 2>> >>,
      <<Pt(12, 8), Pt(6, 8), Pt(3, 3), Pt(3, 13)>> }

FormationsB ==
    { <<Pt(16, 4), Pt(16, 12), Pt(20, 8), Pt(29, 13)>> }

\* PlayerAction::default()
DefaultAction == [dir |-> ZERO, pass |-> NoPass]

\* The action arrays tick returns for the two teams, put together by run:
\* the first player of team A moves or passes, or the first player of
\* team B passes; all others stand.
Actions ==
    { [i \in PlayerIds |-> IF i = 0 THEN act ELSE DefaultAction] :
      act \in {[dir |-> d, pass |-> NoPass] :
                 d \in {ZERO, <<Unit, 0>>, <<0 - Unit, 0>>}}
           \cup {[dir |-> ZERO, pass |-> q] : q \in {ZERO, <<0 - Unit, 0>>}} }
    \cup
    { [i \in PlayerIds |->
         IF i = NUM_PLAYERS THEN [dir |-> ZERO, pass |-> <<Unit, 0>>]
         ELSE DefaultAction] }

\* a loop that plays the tie-break whatever the score
loop_condition_Mut(s) == s.tick < conf.max_ticks + conf.endgame_ticks

\* the condition of the `while` of run
loop_condition(s) ==
    \/ s.tick < conf.max_ticks
    \/ (s.tick < conf.max_ticks + conf.endgame_ticks /\ s.score.a = s.score.b)

\* The head of the loop: the condition and, in the loop, the reset when
\* one is needed (the formations are what the two reset calls returned).
RunLoopWith(formationsA, formationsB) ==
    /\ IF loop_condition(state)
         THEN /\ rpc' = "tick"
              /\ IF needs_reset
                   THEN /\ \E fa \in formationsA, fb \in formationsB :
                             state' = eval_reset(state, [a |-> fa, b |-> fb])
                        /\ last' = [last EXCEPT !.pend = "none"]
                   ELSE UNCHANGED <<state, last>>
         ELSE /\ rpc' = "done"
              /\ UNCHANGED <<state, last>>
    /\ UNCHANGED <<needs_reset, evals, goals>>
    /\ UNCHANGED unitVars
    /\ UNCHANGED chanVars
    /\ UNCHANGED <<ticks, elapsed, overflow, requests, mpc, ret, exhausted, failed>>

\* The rest of the loop body: the actions the two tick calls returned are
\* evaluated.
RunTickWith(actionSet) ==
    /\ \E actions \in actionSet :
         \E o \in eval_tick(state, actions, last.pend) :
            /\ state' = o.state
            /\ needs_reset' = o.ret
            /\ evals' = evals + 1
            /\ goals' = goals + (IF o.goal THEN 1 ELSE 0)
            /\ last' = [ret |-> o.ret, goal |-> o.goal, broken |-> o.broken,
                        covering |-> o.covering, capped |-> o.capped,
                        iterations |-> o.iterations,
                        pushed |-> o.pushed, pend |-> o.pend]
    /\ rpc' = "top"
    /\ UNCHANGED unitVars
    /\ UNCHANGED chanVars
    /\ UNCHANGED <<ticks, elapsed, overflow, requests, mpc, ret, exhausted, failed>>

\* the loop with bots that move and pass
RunLoop ==
    /\ rpc = "top"
    /\ RunLoopWith(FormationsA, FormationsB)

RunTick ==
    /\ rpc = "tick"
    /\ RunTickWith(Actions)

\* The formations of bots that stay where they are put.  In the config of
\* run spawn_ball_dist is above pickup_radius, so no player covers the
\* ball after eval_reset: the formations here keep every player more
\* than pickup_radius off the centre.
IdleFormationsA ==
    {<<p0, p1, Pt(3, 3), Pt(3, 13)>> : p0 \in {Pt(8, 8), Pt(10, 8)}, p1 \in {Pt(6, 4), Pt(6, 12)}}

IdleFormationsB ==
    {<<p4, p5, Pt(29, 3), Pt(29, 13)>> : p4 \in {Pt(24, 8), Pt(22, 8)}, p5 \in {Pt(26, 4), Pt(26, 12)}}

\* both bots return PlayerAction::default() for every player
IdleActions == {[i \in PlayerIds |-> DefaultAction]}

\* the loop with two bots that return default actions
IdleLoop ==
    /\ rpc = "top"
    /\ RunLoopWith(IdleFormationsA, IdleFormationsB)

IdleTick ==
    /\ rpc = "tick"
    /\ RunTickWith(IdleActions)

NextIdle ==
    \/ IdleLoop
    \/ IdleTick

\* the result line run sends after the loop
match_result(s) ==
    IF s.score.a > s.score.b THEN "Winner: Bot A"
    ELSE IF s.score.a < s.score.b THEN "Winner: Bot B"
    ELSE "TIE"

NextGame ==
    \/ RunLoop
    \/ RunTick

SpecGame == Init /\ [][NextGame]_vars

\* a step of the driver task: the loop moves on from where it stands
DriverStep ==
    /\ rpc # "done"
    /\ \E pc \in {"top", "tick", "done"} : pc # rpc /\ rpc' = pc

\* the driver task is scheduled and every request of it returns
LiveSpecGame == SpecGame /\ WF_rpc(DriverStep)

SpecIdle == Init /\ [][NextIdle]_vars

LiveSpecIdle == SpecIdle /\ WF_rpc(DriverStep)

(* ------------------------------------------------------------------ *)
(* Properties of the channel                                           *)
(* ------------------------------------------------------------------ *)

\* the bot has observed READY and has not yet stored BUSY
BotHandling == bpc \in {"match", "call", "assign", "store"}

\* the bot holds its reference into the union (reads the message, writes
\* the response)
BotInUnion == bpc \in {"match", "call", "assign"}

\* the engine writes the message or reads the response
EngineInUnion == epc \in {"copy", "verify", "decode"}

\* C1: msg never writes a new message into the union while the bot is
\* still handling an earlier one (has observed READY and not yet stored
\* BUSY), whatever timed out before.
C1_StrictRequestResponse ==
    [][(\E c \in UnionCells : MsgCopy(c)) => ~BotHandling]_vars

\* C2: the engine and the bot are never both inside their access to the
\* union payload.
C2_UnionOneSide == ~(EngineInUnion /\ BotInUnion)

\* the responses the bot can compute for the messages of earlier calls
LateValues == {Callback(p, m) : p \in ProtocolNames, m \in 1 .. (emsg - 1)}

\* C3: the response to a request that timed out is never the Ok result of a
\* later msg call.
C3_LateValueDiscarded ==
    (epc = "idle" /\ res.tag = "Ok") => res.val \notin LateValues

\* C4: a msg call that returns Timeout leaves sync = BUSY, and sync is still
\* BUSY at the next msg call, whose entry check therefore passes.
C4_TimeoutRestoresBusy ==
    /\ []((epc = "idle" /\ res.tag = "Timeout") => sync = BUSY)
    /\ [][(res.tag = "Timeout" /\ calls' # calls) => epc' = "copy"]_vars

\* a call that followed a timed-out one has passed the entry check
C4_Witness == epc = "copy" /\ res.tag = "Timeout"

\* C5: every msg call returns, whatever the bot does, once time advances.
C5_MsgReturns ==
    (epc \in {"copy", "publish", "wait", "verify", "decode"}) ~> (epc = "idle")

\* a call has returned Timeout from a bot that had exited
C5_Witness == epc = "idle" /\ res.tag = "Timeout" /\ bpc = "dead"

\* C6: a msg call entered with sync # BUSY returns Malformed and leaves sync
\* and the union as they were.
C6_EntryCheck ==
    [][(calls' # calls /\ sync # BUSY)
         => (/\ epc' = "idle"
             /\ res' = Result("Malformed", None)
             /\ sync' = sync
             /\ udisc' = udisc
             /\ uval' = uval)]_vars

\* a call has returned Malformed without having read the discriminant
C6_Witness ==
    /\ epc = "idle"
    /\ calls > 0
    /\ res.tag = "Malformed"
    /\ discriminant = None
    /\ sync # BUSY

\* C7: once the wait has ended in time, msg<P> returns Ok only for the
\* discriminant 2*id(P)+1, and Malformed for every other one.
C7_DiscriminantCheck ==
    /\ (epc = "idle" /\ res.tag = "Ok") => discriminant = 2 * ProtocolId(eproto) + 1
    /\ (discriminant # None /\ discriminant # 2 * ProtocolId(eproto) + 1)
         => (epc \in {"idle", "dropped"} /\ res = Result("Malformed", None))

\* a call has returned Malformed for the message discriminant of its own
\* protocol
C7_Witness ==
    /\ epc = "idle"
    /\ res.tag = "Malformed"
    /\ discriminant = 2 * ProtocolId(eproto)

\* a call has returned Malformed for the response of another protocol
C7_OtherResponse ==
    /\ epc = "idle"
    /\ res.tag = "Malformed"
    /\ discriminant # None
    /\ discriminant % 2 = 1

\* C8: while no request has timed out, msg<P>(m) returns Ok(r) with r the
\* value P's callback returns for m, the union holds P's response variant
\* and sync is BUSY.
C8_Response ==
    (~timedOut /\ epc = "idle" /\ res.tag # "None")
      => (/\ res = Result("Ok", Callback(eproto, emsg))
          /\ udisc = 2 * ProtocolId(eproto) + 1
          /\ sync = BUSY)

\* a second call, of the Tick protocol, has returned with no timeout so far
C8_Witness ==
    /\ ~timedOut
    /\ epc = "idle"
    /\ calls >= 2
    /\ eproto = "Tick"
    /\ res.tag = "Ok"

\* C9: once the channel is dropped, a bot waiting in handle_msg stops
\* waiting and exits.
C9_DropStopsBot == (sync = FINISHED /\ bpc = "poll") ~> (bpc = "dead")

(* ------------------------------------------------------------------ *)
(* Properties of the budget                                            *)
(* ------------------------------------------------------------------ *)

Lesser(a, b) == IF a <= b THEN a ELSE b

\* the budget after a request that took e, from the budget t <= TOTAL before
\* it, in unbounded arithmetic
BudgetAfter(t, e) ==
    IF Le(e, U32(DELAY_TICKS))
      THEN U32(Lesser(TOTAL_COMPUTE_TICKS, Num(t) + DELAY_TICKS - Num(e)))
      ELSE IF Le(U32(Num(t) + DELAY_TICKS), e)
             THEN U32(0)
             ELSE U32(Num(t) - (Num(e) - DELAY_TICKS))

\* C10: after a request that took e the budget is min(TOTAL, ticks + DELAY
\* - e) if e <= DELAY and ticks - min(ticks, e - DELAY) otherwise; it stays
\* within 0 .. TOTAL and no u32 operation wraps.
C10_Budget ==
    /\ [](Le(ticks, U32(TOTAL_COMPUTE_TICKS)) /\ ~overflow)
    /\ [][(requests' # requests /\ Le(ticks, U32(TOTAL_COMPUTE_TICKS)))
            => ticks' = BudgetAfter(ticks, elapsed')]_vars

\* a request that took u32::MAX baseline ticks has emptied a budget that
\* was not empty
C10_Witness == requests > 0 /\ elapsed = U32_MAX /\ ticks = U32(0)

(* ------------------------------------------------------------------ *)
(* Properties of the bot manager over the channel                      *)
(* ------------------------------------------------------------------ *)

\* C11: once overuse has driven the ticks budget to 0, every later reset
\* and tick request times out immediately (it is made with a deadline of
\* 0 ticks and its wait expires) and returns Default::default()
C11_ExhaustedTimesOut ==
    [][exhausted =>
         /\ (mpc = "idle" /\ mpc' \in RequestNames) => ticks = U32(0)
         /\ (mpc \in RequestNames /\ mpc' = "idle") =>
                (res.tag = "Timeout" /\ ret' = "defaults")]_vars

\* C12: after a failed handshake (timeout, transport error, or a value
\* other than HANDSHAKE_BOT) the bot process is dead, its ticks budget is
\* 0, and no reset or tick has returned anything but defaults; the driver
\* is not held up: no msg call is in progress for the bot
C12_HandshakeFailure ==
    failed =>
        /\ exited
        /\ ticks = U32(0)
        /\ ret # "value"
        /\ mpc = "idle"
        /\ epc = "idle"

\* a request has returned defaults after each kind of handshake failure
C12_Witness ==
    /\ failed
    /\ requests = MaxRequests
    /\ ret = "defaults"
    /\ res.tag \in {"Timeout", "Malformed", "Ok"}

\* C13: a reset or tick called when the child has exited returns defaults
\* at once, without a msg call (sync and the union are unchanged, no call
\* is counted or in progress) and without a change of the ticks budget
C13_ExitedSkipsRequest ==
    [][(mpc = "idle" /\ exited /\ (mpc' # "idle" \/ requests' # requests)) =>
         /\ ret' = "defaults"
         /\ mpc' = "idle"
         /\ UNCHANGED <<sync, udisc, uval, ticks, calls, epc, res>>]_vars

\* a request was skipped for a bot that passed the handshake and exited later
C13_Witness ==
    /\ ~failed
    /\ exited
    /\ mpc = "idle"
    /\ requests > 0
    /\ ret = "defaults"
    /\ calls = 1

(* ------------------------------------------------------------------ *)
(* Properties of the match loop and of the game                        *)
(* ------------------------------------------------------------------ *)

tied == state.score.a = state.score.b

\* C14: the loop is left exactly when tick >= max_ticks and not
\* (tick < max_ticks + endgame_ticks and the score is tied); so the match
\* ends, with max_ticks <= tick <= max_ticks + endgame_ticks, it plays on
\* past max_ticks only while the score is tied, and it has ended at the
\* first tick >= max_ticks at which the scores differ
C14_Termination ==
    /\ [](rpc = "done" =>
             /\ state.tick >= conf.max_ticks
             /\ ~(state.tick < conf.max_ticks + conf.endgame_ticks /\ tied)
             /\ state.tick <= conf.max_ticks + conf.endgame_ticks)
    /\ [](rpc = "tick" =>
             /\ state.tick < conf.max_ticks + conf.endgame_ticks
             /\ (state.tick >= conf.max_ticks => tied))
    /\ <>(rpc = "done")

\* the match has ended in the tie-break on a goal
C14_Witness ==
    /\ rpc = "done"
    /\ state.tick > conf.max_ticks
    /\ ~tied

\* C15: state.tick is the number of eval_tick calls made: every eval_tick
\* raises it by 1 whatever it returns, eval_reset leaves it, it never
\* decreases
C15_TickCounts ==
    [][/\ state.tick = evals
       /\ state'.tick = evals'
       /\ state'.tick >= state.tick
       /\ (rpc = "tick") => state'.tick = state.tick + 1
       /\ (rpc = "top") => state'.tick = state.tick]_vars

\* eval_reset has run after an eval_tick that returned true
C15_Witness ==
    /\ rpc = "tick"
    /\ needs_reset
    /\ last.ret
    /\ state.tick > 0
    /\ state.ball.pos = center

\* C16: the scores never decrease and their sum is the number of
\* eval_tick calls that returned true for a goal: a call raises one
\* team's score by 1 exactly when it returns true for a goal and no
\* score otherwise (a stagnation included)
C16_Scores ==
    [][/\ state.score.a + state.score.b = goals
       /\ state'.score.a + state'.score.b = goals'
       /\ state'.score.a >= state.score.a
       /\ state'.score.b >= state.score.b
       /\ (state'.score.a + state'.score.b) - (state.score.a + state.score.b) =
             (IF rpc = "tick" /\ last'.ret /\ last'.goal THEN 1 ELSE 0)]_vars

\* a tick has returned true for a stagnation, with a goal scored before
C16_Witness ==
    /\ last.ret
    /\ ~last.goal
    /\ goals > 0

\* player p lies within [radius, field.dim - radius] on both axes
in_field(p) ==
    /\ p.radius <= p.pos[1]
    /\ p.pos[1] <= conf.field.width * Unit - p.radius
    /\ p.radius <= p.pos[2]
    /\ p.pos[2] <= conf.field.height * Unit - p.radius

C18_BallOnOwner ==
    state.ball_possession.kind = "Possessed" =>
        LET owner == state.players[state.ball_possession.owner]
        IN  /\ state.ball.vel = ZERO
            /\ state.ball.pos =
                  VAdd(owner.pos,
                       VScale(normalize_or_zero(owner.dir),
                              owner.radius + state.ball.radius))

\* the owner moves with the ball and was pushed by a collision
C18_Witness ==
    /\ state.ball_possession.kind = "Possessed"
    /\ last.pushed
    /\ state.players[state.ball_possession.owner].dir # ZERO

\* C19: capture_ticks is never below 0 and never above
\* 2 * conf.ball.capture_ticks, however many opponents cover the ball
C19_CaptureTicks ==
    /\ state.ball_possession.capture_ticks >= 0
    /\ state.ball_possession.capture_ticks <= 2 * conf.ball.capture_ticks

\* several opponents covered the ball and took it over
C19_Witness ==
    /\ last.covering > 1
    /\ state.ball_possession.kind = "Possessed"
    /\ state.ball_possession.team = "b"
    /\ state.ball_possession.capture_ticks = 0

\* C20: release rule: no player of the team of a pass becomes the owner
\* while a player of that team still covers the ball, also not by way of
\* Passing -> Free -> Possessed within one tick
C20_ReleaseRule == ~last.broken

(* ------------------------------------------------------------------ *)
(* handle_ball_state, turn by turn                                     *)
(* ------------------------------------------------------------------ *)

\* Where the players stand when handle_ball_state is entered: the first
\* two players of each team on a ray from the ball, covering it (2.0
\* away), within 1.0 of covering it (3.25 or 3.0 away) or far (5.0 away);
\* the others in the corners.
Spots(i) ==
    CASE i = 0 -> {Pt(12, 8), <<(19 * Unit) \div 4, 4 * Unit>>, Pt(6, 8)}
      [] i = 1 -> {Pt(16, 4), Pt(16, 2)}
      [] i = 2 -> {Pt(3, 3)}
      [] i = 3 -> {Pt(3, 13)}
      [] i = 4 -> {Pt(20, 8), <<(45 * Unit) \div 4, 4 * Unit>>, Pt(26, 8)}
      [] i = 5 -> {Pt(16, 12), Pt(16, 14)}
      [] i = 6 -> {Pt(29, 3)}
      [] i = 7 -> {Pt(29, 13)}

\* every choice of a spot for each player
Layouts ==
    {[i \in PlayerIds |->
        IF i = 0 THEN s0 ELSE IF i = 1 THEN s1
        ELSE IF i = NUM_PLAYERS THEN s4 ELSE IF i = NUM_PLAYERS + 1 THEN s5
        ELSE CHOOSE x \in Spots(i) : TRUE] :
       s0 \in Spots(0), s1 \in Spots(1),
       s4 \in Spots(NUM_PLAYERS), s5 \in Spots(NUM_PLAYERS + 1)}

\* the possession states handle_ball_state is entered with; an owner
\* stands still with the ball on it
BallEntries ==
    {Free} \cup {Passing(t) : t \in Teams}
      \cup {Possessed(o, player_team(o), k) : o \in {0, NUM_PLAYERS},
                                               k \in 0 .. conf.ball.capture_ticks}

\* the passes of the actions handle_ball_state is entered with: the first
\* player of each team may pass, with a zero vector too
BallPasses ==
    {[i \in PlayerIds |-> IF i = 0 THEN pa ELSE IF i = NUM_PLAYERS THEN pb ELSE NoPass] :
       pa \in {NoPass, ZERO, <<Unit, 0>>}, pb \in {NoPass, ZERO, <<Unit, 0>>}}

\* the GameState of an entry: ball at the centre, players on their spots
BallState(spot, bp) ==
    [NewGameState EXCEPT
       !.ball_possession = bp,
       !.ball = [pos |-> center,
                 vel |-> IF bp.kind = "Passing" THEN <<Unit, 0>> ELSE ZERO,
                 radius |-> conf.ball.radius],
       !.players = [i \in PlayerIds |->
                      [NewGameState.players[i] EXCEPT
                         !.pos = IF bp.kind = "Possessed" /\ bp.owner = i
                                   THEN center ELSE spot[i]]]]

\* a call of handle_ball_state inside eval_tick
InitBall ==
    /\ ChanInit
    /\ MgrInit
    /\ \E spot \in Layouts, bp \in BallEntries, passes \in BallPasses :
         /\ state = BallState(spot, bp)
         /\ hbs = [pc |-> "entry",
                   m |-> [bp |-> bp, ball |-> BallState(spot, bp).ball,
                          passes |-> passes, pend |-> "none", broken |-> FALSE],
                   from |-> bp, n |-> 0]
    /\ MirrorIdle
    /\ RequestsIdle
    /\ WaitIdle
    /\ needs_reset = FALSE
    /\ rpc = "tick"
    /\ evals = 0
    /\ goals = 0
    /\ last = [ret |-> FALSE, goal |-> FALSE, broken |-> FALSE, covering |-> 0,
               capped |-> FALSE, iterations |-> 0, pushed |-> FALSE,
               pend |-> "none"]

\* the sweep over the opponents before the loop
BallSweep ==
    /\ hbs.pc = "entry"
    /\ hbs' = [pc |-> "loop",
               m |-> [hbs.m EXCEPT !.bp =
                        IF hbs.m.bp.kind = "Possessed"
                          THEN [hbs.m.bp EXCEPT !.capture_ticks =
                                  capture_sweep(state.players, hbs.m.bp, hbs.m.ball)]
                          ELSE hbs.m.bp],
               from |-> hbs.m.bp, n |-> 0]
    /\ UNCHANGED <<state, needs_reset, rpc, evals, goals, last, mir, drv, wt>>
    /\ UNCHANGED chanVars
    /\ UNCHANGED <<ticks, elapsed, overflow, requests, mpc, ret, exhausted, failed>>

\* one turn of the `while !resolved` loop
BallTurn ==
    /\ hbs.pc = "loop"
    /\ \E r \in ball_state_turn(state.players, hbs.m) :
         hbs' = [pc |-> IF r.resolved THEN "done" ELSE "loop",
                 m |-> r.m,
                 from |-> hbs.m.bp, n |-> hbs.n + 1]
    /\ UNCHANGED <<state, needs_reset, rpc, evals, goals, last, mir, drv, wt>>
    /\ UNCHANGED chanVars
    /\ UNCHANGED <<ticks, elapsed, overflow, requests, mpc, ret, exhausted, failed>>

NextBall ==
    \/ BallSweep
    \/ BallTurn

SpecBall == InitBall /\ [][NextBall]_vars

\* the players of `ids` whose pickup circle covers the ball of the call
covering(ids) == {i \in ids : covers(state.players[i], hbs.m.ball.pos)}

\* C21: a turn in Passing{team}: if the pickup circle of an opponent
\* covers the ball the state becomes Possessed{that opponent, other team,
\* 0}; else it becomes Free if no team mate covers the ball and stays
\* Passing if one does, whatever the random choices
C21_PassingTurn ==
    [][(hbs.pc = "loop" /\ hbs.m.bp.kind = "Passing") =>
         LET team == hbs.m.bp.team
             opponents == covering(TeamIds(other(team)))
             mates == covering(TeamIds(team))
         IN  /\ opponents # {} =>
                   hbs'.m.bp \in {Possessed(o, other(team), 0) : o \in opponents}
             /\ (opponents = {} /\ mates = {}) => hbs'.m.bp = Free
             /\ (opponents = {} /\ mates # {}) => hbs'.m.bp = Passing(team)]_vars

\* C22: a turn in Free: if the pickup circle of a player covers the ball
\* the state becomes Possessed{p, team of p, 0} for a player p that covers
\* it; else it stays Free, whatever the random choices
C22_FreeTurn ==
    [][(hbs.pc = "loop" /\ hbs.m.bp.kind = "Free") =>
         IF covering(PlayerIds) # {}
           THEN hbs'.m.bp \in {Possessed(q, player_team(q), 0) : q \in covering(PlayerIds)}
           ELSE hbs'.m.bp = Free]_vars

\* distance to the ball of the call less pickup_radius
pickup_margin(i) ==
    dist(state.players[i].pos, hbs.m.ball.pos) - state.players[i].pickup_radius

\* C23: a turn in Possessed with no pass of the owner: the possession is
\* handed over exactly when capture_ticks > conf.ball.capture_ticks, to
\* an opponent with capture_ticks 0 whose distance to the ball less
\* pickup_radius is the least among the opponents up to 1.0
C23_CaptureTurn ==
    [][(hbs.pc = "loop" /\ hbs.m.bp.kind = "Possessed" /\ owner_pass(hbs.m) = NoPass) =>
         LET opponents == TeamIds(other(hbs.m.bp.team))
         IN  IF hbs.m.bp.capture_ticks > conf.ball.capture_ticks
               THEN \E o \in opponents :
                      /\ hbs'.m.bp = Possessed(o, other(hbs.m.bp.team), 0)
                      /\ \A j \in opponents : pickup_margin(o) <= pickup_margin(j) + Unit
               ELSE hbs'.m.bp = hbs.m.bp]_vars

\* C24: a turn in Possessed{o}: a pass of o of non-zero norm makes the
\* state Passing{team of o} and is cleared, also with capture_ticks over
\* conf.ball.capture_ticks; without a pass of o the state stays Possessed
\* whatever the other players pass, and their passes are left alone
C24_PassTurn ==
    [][(hbs.pc = "loop" /\ hbs.m.bp.kind = "Possessed") =>
         LET o == hbs.m.bp.owner
             pass == hbs.m.passes[o]
         IN  /\ (pass # NoPass /\ pass # ZERO) =>
                   /\ hbs'.m.bp = Passing(player_team(o))
                   /\ hbs'.m.passes[o] = NoPass
             /\ pass = NoPass => hbs'.m.bp.kind = "Possessed"
             /\ \A j \in PlayerIds \ {o} : hbs'.m.passes[j] = hbs.m.passes[j]]_vars

\* the owner has passed with the capture count over the limit, while the
\* first player of the other team asks for a pass too
C24_Witness ==
    /\ hbs.m.bp.kind = "Passing"
    /\ hbs.from.kind = "Possessed"
    /\ hbs.from.capture_ticks > conf.ball.capture_ticks
    /\ \E j \in PlayerIds : j # hbs.from.owner /\ hbs.m.passes[j] # NoPass

(* ------------------------------------------------------------------ *)
(* Mirror                                                              *)
(* ------------------------------------------------------------------ *)

\* Coordinates are f32.  A non-negative f32 of the field is written as the
\* integer count of 2^-23, the spacing of f32 in [1, 2): F32One is 1.0.
F32One == 8388608

\* the distance from n to the next f32 of its binade (24 bits of
\* significand)
F32Spacing(n) ==
    LET k == CHOOSE j \in 0 .. 6 : n < 2^(24 + j) /\ (j = 0 \/ n >= 2^(23 + j))
    IN  2^k

\* the f32 nearest to n, ties to even: the result of an f32 operation
\* whose exact result is n
F32Round(n) ==
    LET q == F32Spacing(n)
        lo == (n \div q) * q
        r == n - lo
    IN  IF 2 * r < q THEN lo
        ELSE IF 2 * r > q THEN lo + q
        ELSE IF (n \div q) % 2 = 0 THEN lo ELSE lo + q

\* conf.field.width as f32
width32 == conf.field.width * F32One

\* mirror_pos(p) = (field.width - p.x, p.y)
mirror_pos(p) == <<F32Round(width32 - p[1]), p[2]>>

\* velocities and directions negate x
mirror_vel(v) == <<0 - v[1], v[2]>>

\* the possession seen from the other side: owner and team change halves
mirror_possession(bp) ==
    IF bp.kind = "Free" THEN bp
    ELSE [bp EXCEPT !.team = other(@),
                    !.owner = IF @ = None THEN None ELSE (@ + NUM_PLAYERS) % (2 * NUM_PLAYERS)]

\* Mirror for TeamPair<u32>: the two scores change places
mirror_score(sc) == [a |-> sc.b, b |-> sc.a]

\* Mirror for PlayerAction
mirror_action(act) ==
    [dir |-> mirror_vel(act.dir),
     pass |-> IF act.pass = NoPass THEN NoPass ELSE mirror_vel(act.pass)]

\* Mirror for GameState: positions, velocities, the two halves of the
\* player array, possession, score
mirror_state(s) ==
    [s EXCEPT
       !.ball = [@ EXCEPT !.pos = mirror_pos(@), !.vel = mirror_vel(@)],
       !.ball_stagnation = [@ EXCEPT !.center = mirror_pos(@)],
       !.ball_possession = mirror_possession(@),
       !.score = mirror_score(@),
       !.players = [i \in PlayerIds |->
                      LET q == s.players[(i + NUM_PLAYERS) % (2 * NUM_PLAYERS)]
                      IN  [q EXCEPT !.id = i,
                                    !.pos = mirror_pos(@),
                                    !.dir = mirror_vel(@)]]]

\* x coordinates in the field: a player put back from the left wall
\* (radius + EPSILON = 1.001 in f32), 2.5, 6.0, the centre, and a player
\* put back from the right wall (15.0 - EPSILON in f32)
MirrorXs ==
    {F32One + 8389, (5 * F32One) \div 2, 6 * F32One, 8 * F32One, 15 * F32One - 8392}

\* the game states that get mirrored: the first players of the two
\* teams and the ball on a line, the ball free or with the first player
MirrorStates ==
    {[tick |-> 1,
      ball |-> [pos |-> <<bx, 4 * F32One>>, vel |-> v, radius |-> F32One \div 2],
      ball_possession |-> bp,
      ball_stagnation |-> [center |-> <<bx, 4 * F32One>>, tick |-> 1],
      players |-> [i \in PlayerIds |->
                     [id |-> i,
                      pos |-> <<IF i = 0 THEN x0
                                ELSE IF i = NUM_PLAYERS THEN x4
                                ELSE (2 + i) * F32One,
                                (1 + (i % NUM_PLAYERS) * 2) * F32One>>,
                      dir |-> IF i = 0 THEN <<F32One, 0>> ELSE <<0, 0>>,
                      speed |-> 2 * F32One, radius |-> F32One,
                      pickup_radius |-> (5 * F32One) \div 2]],
      score |-> [a |-> 1, b |-> 0]] :
       x0 \in MirrorXs, x4 \in MirrorXs, bx \in MirrorXs,
       bp \in {Free, Passing("a"), Possessed(0, "a", 1)},
       v \in {<<0, 0>>, <<F32One, 0>>}}

\* the actions that get mirrored
MirrorActions ==
    {[dir |-> dv, pass |-> pv] :
       dv \in {<<0, 0>>, <<F32One, 0>>, <<0 - F32One \div 2, F32One \div 2>>},
       pv \in {NoPass, <<F32One, 0>>}}

\* a value is taken to be mirrored
InitMirror ==
    /\ ChanInit
    /\ MgrInit
    /\ GameInit
    /\ BallIdle
    /\ RequestsIdle
    /\ WaitIdle
    /\ \E v \in {[kind |-> "state", val |-> x] : x \in MirrorStates}
               \cup {[kind |-> "action", val |-> x] : x \in MirrorActions}
               \cup {[kind |-> "score", val |-> [a |-> x, b |-> y]] : x \in 0 .. 1, y \in 0 .. 2} :
         mir = [n |-> 0, orig |-> v, cur |-> v]

\* x.mirror(&conf)
Mirror ==
    /\ mir.n < 2
    /\ mir' = [mir EXCEPT
                 !.n = @ + 1,
                 !.cur = [@ EXCEPT !.val =
                            CASE mir.cur.kind = "state" -> mirror_state(@)
                              [] mir.cur.kind = "action" -> mirror_action(@)
                              [] mir.cur.kind = "score" -> mirror_score(@)]]
    /\ UNCHANGED <<state, needs_reset, rpc, evals, goals, last, hbs, drv, wt>>
    /\ UNCHANGED chanVars
    /\ UNCHANGED <<ticks, elapsed, overflow, requests, mpc, ret, exhausted, failed>>

NextMirror == Mirror

SpecMirror == InitMirror /\ [][NextMirror]_vars

\* C25: mirroring twice gives back the original GameState, PlayerAction
\* or score pair
C25_MirrorInvolution == mir.n = 2 => mir.cur = mir.orig

(* ------------------------------------------------------------------ *)
(* Matches of bots that return default actions                         *)
(* ------------------------------------------------------------------ *)

\* C26: with two bots that return default actions no goal is scored,
\* eval_tick returns true (for stagnation) first at tick stagnation_ticks,
\* a reset follows, and the match ends at tick max_ticks + endgame_ticks
\* with the score 0-0 and the result TIE
C26_IdleMatch ==
    /\ [](goals = 0 /\ state.score = [a |-> 0, b |-> 0])
    /\ [](evals < conf.ball.stagnation_ticks => ~last.ret)
    /\ []((evals = conf.ball.stagnation_ticks /\ rpc = "top") =>
              (last.ret /\ ~last.goal /\ needs_reset))
    /\ []((evals = conf.ball.stagnation_ticks /\ rpc = "tick") =>
              (state.ball_stagnation = [center |-> center, tick |-> 0]
               /\ state.ball.pos = center
               /\ state.ball_possession = Free))
    /\ [](rpc = "done" =>
              (state.tick = conf.max_ticks + conf.endgame_ticks
               /\ match_result(state) = "TIE"))
    /\ <>(rpc = "done")

\* the match of the idle bots has ended after the tie-break
C26_Witness ==
    /\ rpc = "done"
    /\ evals = conf.max_ticks + conf.endgame_ticks
    /\ goals = 0
    /\ match_result(state) = "TIE"

(* ------------------------------------------------------------------ *)
(* A pass at an opposing player                                        *)
(* ------------------------------------------------------------------ *)

\* the owner of the scenario (team A) and the opposing player it passes at
PassOwner == 0
PassTarget == NUM_PLAYERS

\* The distance target - ball when the pass is made, in halves of a unit:
\* at most one stride of pass_speed.  Up to pickup_radius the target's
\* circle covers the ball before it has left the owner.
PassDists == {h \in {2, 3, 4, 5, 11, 12, 13, 14, 15, 16} : h * (Unit \div 2) <= conf.player.pass_speed}

\* A match in progress after its first tick: the owner at (2, 4) faces the
\* target and holds the ball; the other players stand more than
\* pickup_radius + 1.0 off every place the ball comes to.
PassStates ==
    {[NewGameState EXCEPT
        !.tick = 1,
        !.ball_possession = Possessed(PassOwner, "a", 0),
        !.ball = [pos |-> Pt(7, 8), vel |-> ZERO, radius |-> conf.ball.radius],
        !.ball_stagnation = [center |-> Pt(7, 8), tick |-> 0],
        !.players = [i \in PlayerIds |->
                       [NewGameState.players[i] EXCEPT
                          !.pos = CASE i = 0 -> Pt(4, 8)
                                    [] i = 1 -> Pt(2, 2)
                                    [] i = 2 -> Pt(2, 14)
                                    [] i = 3 -> Pt(15, 2)
                                    [] i = 4 -> Pt(7 + h, 8)
                                    [] i = 5 -> p5
                                    [] i = 6 -> p6
                                    [] i = 7 -> Pt(15, 14),
                          !.dir = IF i = PassOwner THEN <<Unit, 0>> ELSE ZERO]]] :
       h \in PassDists, p5 \in {Pt(30, 2), Pt(28, 2)}, p6 \in {Pt(30, 14), Pt(28, 14)}}

\* the actions of the tick of the pass: the owner passes along the line
\* from the ball to the target, every other player returns the default
PassActions(s) ==
    {[i \in PlayerIds |->
        IF i = PassOwner
          THEN [dir |-> ZERO,
                pass |-> normalize_or_zero(VSub(s.players[PassTarget].pos, s.ball.pos))]
          ELSE DefaultAction]}

InitPass ==
    /\ ChanInit
    /\ MgrInit
    /\ UnitInit
    /\ state \in PassStates
    /\ needs_reset = FALSE
    /\ rpc = "tick"
    /\ evals = 1
    /\ goals = 0
    /\ last = [ret |-> FALSE, goal |-> FALSE, broken |-> FALSE, covering |-> 0,
               capped |-> FALSE, iterations |-> 0, pushed |-> FALSE,
               pend |-> "none"]

\* the loop head of run in the ticks after the pass
PassLoop ==
    /\ rpc = "top"
    /\ RunLoopWith(IdleFormationsA, IdleFormationsB)

\* the tick of the pass, and the ticks after it with default actions
PassTick ==
    /\ rpc = "tick"
    /\ RunTickWith(IF evals = 1 THEN PassActions(state) ELSE IdleActions)

NextPass ==
    \/ PassLoop
    \/ PassTick

SpecPass == InitPass /\ [][NextPass]_vars

\* C27: after a pass of the owner on team A straight at an opposing
\* player within one stride of pass_speed, the tick of the pass ends in
\* Passing{A} and the tick after it in Possessed{that player, B, 0}
C27_PassInterception ==
    /\ (evals = 2 /\ rpc = "top") => state.ball_possession = Passing("a")
    /\ (evals = 3 /\ rpc = "top") =>
           state.ball_possession = Possessed(PassTarget, "b", 0)

(* ------------------------------------------------------------------ *)
(* The reset and tick requests of run                                  *)
(* ------------------------------------------------------------------ *)

\* passes of the match loop that are followed
MaxRounds == 3

BotNames == {"a", "b"}

\* BotManager::reset / BotManager::tick up to the first suspension: a bot
\* that has exited gets no message and the call returns the default at
\* once ("skipped"); otherwise BotChannel::msg stores the message, sets
\* sync to Ready ("out": the message is with the bot) and waits
request(gone) == IF gone THEN "skipped" ELSE "out"

\* tick requests made one after the other: the first poll reaches bot A's
\* request alone
tick_requests_Mut(d) == [a |-> request(d.exited.a), b |-> "none"]

\* join!(bot_a.tick(..), bot_b.tick(..)): the first poll of the joined
\* future polls both requests, each up to its first suspension
tick_requests(d) == [a |-> request(d.exited.a), b |-> request(d.exited.b)]

\* a request has come back to the driver
returned(st) == st \in {"back", "skipped"}

InitRequests ==
    /\ ChanInit
    /\ MgrInit
    /\ GameInit
    /\ BallIdle
    /\ MirrorIdle
    /\ WaitIdle
    /\ \E ea \in BOOLEAN, eb \in BOOLEAN :
         drv = [pc |-> "handshake", cur |-> "a", n |-> 0, needs_reset |-> TRUE,
                exited |-> [a |-> ea, b |-> eb],
                hs |-> NoRequests, reset |-> NoRequests, tick |-> NoRequests,
                log |-> [a |-> <<>>, b |-> <<>>], rets |-> <<>>, resets |-> <<>>]

RequestsFrame ==
    /\ UNCHANGED <<state, needs_reset, rpc, evals, goals, last, hbs, mir, wt>>
    /\ UNCHANGED chanVars
    /\ UNCHANGED <<ticks, elapsed, overflow, requests, mpc, ret, exhausted, failed>>

\* the log of bot x with the message of a request added, if the request
\* went out to the bot
sent(d, x, st, kind) ==
    IF st = "out" THEN Append(d.log[x], <<kind, d.n>>) ELSE d.log[x]

\* join!(bot_a.handshake(..), bot_b.handshake(..)), the first poll:
\* handshake calls msg without asking whether the process has exited
HandshakeJoin ==
    /\ drv.pc = "handshake"
    /\ drv' = [drv EXCEPT
                 !.pc = "hs_join",
                 !.hs = [a |-> "out", b |-> "out"],
                 !.log = [a |-> sent(drv, "a", "out", "Handshake"),
                          b |-> sent(drv, "b", "out", "Handshake")]]
    /\ RequestsFrame

\* BotManager::handshake of bot x returns: on an error of msg or a wrong
\* magic number the process is killed
HandshakeReturn(x) ==
    /\ drv.pc = "hs_join"
    /\ drv.hs[x] \in {"out", "answered"}
    /\ \E good \in {drv.hs[x] = "answered", FALSE} :
         drv' = [drv EXCEPT !.hs[x] = "back",
                            !.exited[x] = drv.exited[x] \/ ~good]
    /\ RequestsFrame

\* join! of the handshakes returns; the GameState is made
HandshakesJoined ==
    /\ drv.pc = "hs_join"
    /\ returned(drv.hs.a)
    /\ returned(drv.hs.b)
    /\ drv' = [drv EXCEPT !.pc = "top"]
    /\ RequestsFrame

\* a reset that is made before the first tick only
reset_due_Mut(d) == d.n = 0

\* `if needs_reset`
reset_due(d) == d.needs_reset

\* the while condition and `if needs_reset`
LoopTop ==
    /\ drv.pc = "top"
    /\ drv' = [drv EXCEPT
                 !.pc = IF drv.n >= MaxRounds THEN "done"
                        ELSE IF reset_due(drv) THEN "reset" ELSE "tick",
                 !.cur = "a",
                 !.reset = NoRequests,
                 !.tick = NoRequests]
    /\ RequestsFrame

\* where run goes on when the reset of bot x has returned: bot B's reset
\* after bot A's; eval_reset and the tick requests after bot B's
after_reset(d, x) ==
    IF x = "a" THEN [d EXCEPT !.pc = "reset", !.cur = "b"]
               ELSE [d EXCEPT !.pc = "tick", !.cur = "a",
                              !.resets = Append(@, d.n)]

\* bot_x.reset(..).await, up to the first suspension
ResetCall(x) ==
    /\ drv.pc = "reset"
    /\ drv.cur = x
    /\ drv' = IF drv.exited[x]
                THEN after_reset([drv EXCEPT !.reset[x] = request(TRUE)], x)
                ELSE [drv EXCEPT !.reset[x] = request(FALSE), !.pc = "await",
                                 !.log[x] = sent(drv, x, request(FALSE), "Reset")]
    /\ RequestsFrame

\* bot_x.reset(..).await returns, with the response or on the timeout
ResetReturn(x) ==
    /\ drv.pc = "await"
    /\ drv.cur = x
    /\ drv.reset[x] \in {"out", "answered"}
    /\ drv' = after_reset([drv EXCEPT !.reset[x] = "back"], x)
    /\ RequestsFrame

\* join!: the first poll
TickJoin ==
    /\ drv.pc = "tick"
    /\ drv' = [drv EXCEPT
                 !.tick = tick_requests(drv),
                 !.pc = "join",
                 !.log = [a |-> sent(drv, "a", tick_requests(drv).a, "Tick"),
                          b |-> sent(drv, "b", tick_requests(drv).b, "Tick")]]
    /\ RequestsFrame

\* a later poll finds bot x's tick request ready: the response is there
\* or the timeout has passed
TickReturn(x) ==
    /\ drv.pc = "join"
    /\ drv.tick[x] \in {"out", "answered"}
    /\ drv' = [drv EXCEPT !.tick[x] = "back"]
    /\ RequestsFrame

\* join! returns when both requests have
JoinReturn ==
    /\ drv.pc = "join"
    /\ returned(drv.tick.a)
    /\ returned(drv.tick.b)
    /\ drv' = [drv EXCEPT !.pc = "eval"]
    /\ RequestsFrame

\* needs_reset = eval_tick(..)
EvalTick ==
    /\ drv.pc = "eval"
    /\ \E r \in BOOLEAN :
         drv' = [drv EXCEPT !.pc = "top", !.n = @ + 1, !.needs_reset = r,
                            !.rets = Append(@, r)]
    /\ RequestsFrame

\* bot x stores its response to the message it has
BotAnswer(x) ==
    /\ ~drv.exited[x]
    /\ \E f \in {"hs", "reset", "tick"} :
         /\ drv[f][x] = "out"
         /\ drv' = [drv EXCEPT ![f][x] = "answered"]
    /\ RequestsFrame

\* the process of bot x ends
ProcessExit(x) ==
    /\ ~drv.exited[x]
    /\ drv.pc # "done"
    /\ drv' = [drv EXCEPT !.exited[x] = TRUE]
    /\ RequestsFrame

NextRequests ==
    \/ HandshakeJoin
    \/ \E x \in BotNames : HandshakeReturn(x)
    \/ HandshakesJoined
    \/ LoopTop
    \/ \E x \in BotNames : ResetCall(x)
    \/ \E x \in BotNames : ResetReturn(x)
    \/ TickJoin
    \/ \E x \in BotNames : TickReturn(x)
    \/ JoinReturn
    \/ EvalTick
    \/ \E x \in BotNames : BotAnswer(x)
    \/ \E x \in BotNames : ProcessExit(x)

SpecRequests == InitRequests /\ [][NextRequests]_vars

\* C28: the reset requests run in parallel: when bot A's reset request
\* has completed, bot B's Reset message has already been made available
\* to bot B
C28_ResetsParallel == drv.reset.a = "back" => drv.reset.b # "none"

\* C29: the two tick requests run in parallel and are joined: neither
\* request has returned before the other bot has its Tick message,
\* eval_tick is reached only when both requests have returned, and each
\* outstanding request can return whatever the state of the other
C29_TicksJoined ==
    /\ drv.tick.a = "back" => drv.tick.b # "none"
    /\ drv.tick.b = "back" => drv.tick.a # "none"
    /\ drv.pc = "eval" => (returned(drv.tick.a) /\ returned(drv.tick.b))
    /\ \A x \in BotNames :
         (drv.pc = "join" /\ drv.tick[x] \in {"out", "answered"}) => ENABLED TickReturn(x)

\* both Tick messages are outstanding at the same time
C29_Witness ==
    /\ drv.pc = "join"
    /\ drv.tick.a = "out"
    /\ drv.tick.b = "out"

(* ------------------------------------------------------------------ *)
(* Stagnation                                                          *)
(* ------------------------------------------------------------------ *)

\* C30: in an eval_tick that scores no goal the stagnation counter rises
\* by 1 if the ball is within stagnation_radius of stagnation.center, and
\* otherwise the center becomes the ball position and the counter 0;
\* eval_tick returns true exactly when the counter is >= stagnation_ticks;
\* at the start of every eval_tick of the loop the counter is below
\* stagnation_ticks
C30_Stagnation ==
    /\ [](rpc = "tick" => state.ball_stagnation.tick < conf.ball.stagnation_ticks)
    /\ [][(evals' = evals + 1 /\ ~last'.goal) =>
            /\ state'.ball_stagnation =
                 IF dist_sq(state'.ball.pos, state.ball_stagnation.center) <=
                      conf.ball.stagnation_radius * conf.ball.stagnation_radius
                   THEN [center |-> state.ball_stagnation.center,
                         tick |-> state.ball_stagnation.tick + 1]
                   ELSE [center |-> state'.ball.pos, tick |-> 0]
            /\ last'.ret = (state'.ball_stagnation.tick >= conf.ball.stagnation_ticks)]_vars

\* eval_tick has returned true for a ball that was carried off the centre
\* of the field and then stayed in place
C30_Witness ==
    /\ rpc = "top"
    /\ last.ret
    /\ ~last.goal
    /\ state.ball_stagnation.tick >= conf.ball.stagnation_ticks
    /\ state.ball_stagnation.center # center

(* ------------------------------------------------------------------ *)
(* Scoring                                                             *)
(* ------------------------------------------------------------------ *)

\* the ball's y is within the goal opening, the range
\* (center.y - h / 2)..(center.y + h / 2) of handle_scoring
in_opening(ball) ==
    /\ center[2] - Quot(conf.goal.height * Unit, 2) <= ball.pos[2]
    /\ ball.pos[2] < center[2] + Quot(conf.goal.height * Unit, 2)

\* the ball is past the left / the right goal line
past_left(ball) == ball.pos[1] - ball.radius <= conf.goal.thickness * Unit
past_right(ball) ==
    ball.pos[1] + ball.radius >= (conf.field.width - conf.goal.thickness) * Unit

\* C31: eval_tick scores only with the ball's y within the goal opening:
\* a ball past the left goal line adds 1 to team B's score, a ball past
\* the right goal line adds 1 to team A's score, never both in one tick,
\* and the call returns true; with y outside the opening no score changes
\* whatever x is
C31_Scoring ==
    [][evals' = evals + 1 =>
         LET ball == state'.ball
             sa == state.score.a
             sb == state.score.b
         IN  /\ (in_opening(ball) /\ past_left(ball)) =>
                    (state'.score = [a |-> sa, b |-> sb + 1] /\ last'.ret /\ last'.goal)
             /\ (in_opening(ball) /\ ~past_left(ball) /\ past_right(ball)) =>
                    (state'.score = [a |-> sa + 1, b |-> sb] /\ last'.ret /\ last'.goal)
             /\ (in_opening(ball) /\ ~past_left(ball) /\ ~past_right(ball)) =>
                    (state'.score = state.score /\ ~last'.goal)
             /\ ~in_opening(ball) => (state'.score = state.score /\ ~last'.goal)
             /\ state'.score.a + state'.score.b <= sa + sb + 1]_vars

\* a tick has ended with the ball past the left goal line inside the
\* opening and team B's first goal
C31_Witness ==
    /\ rpc = "top"
    /\ last.goal
    /\ in_opening(state.ball)
    /\ past_left(state.ball)
    /\ state.score = [a |-> 0, b |-> 1]

(* ------------------------------------------------------------------ *)
(* eval_reset, for the formations a bot may return                     *)
(* ------------------------------------------------------------------ *)

\* States run calls eval_reset in: the new GameState, and states of a
\* match after a goal or a stagnation
ResetStates ==
    {NewGameState}
    \cup
    {[NewGameState EXCEPT
        !.tick = k,
        !.score = sc,
        !.ball = [pos |-> Pt(3, 8), vel |-> <<Unit, 0>>, radius |-> conf.ball.radius],
        !.ball_possession = bp,
        !.ball_stagnation = [center |-> Pt(3, 8), tick |-> conf.ball.stagnation_ticks],
        !.players = [i \in PlayerIds |->
                       [NewGameState.players[i] EXCEPT
                          !.pos = Pt(4 + 3 * i, 4 + i),
                          !.dir = <<0, Unit>>]]] :
       k \in 1 .. 2,
       sc \in {[a |-> 0, b |-> 0], [a |-> 1, b |-> 0]},
       bp \in {Free, Passing("b"), Possessed(0, "a", 1)}}

\* Positions a bot may name: inside and outside the field, in either
\* half, on the center, inside the spawn circle on and off the axes, and
\* with a coordinate that is not a number
ResetSpots ==
    {Pt(16, 8), Pt(14, 8), Pt(15, 7), Pt(17, 9), Pt(16, 6), Pt(13, 5),
     Pt(4, 4), Pt(28, 12), Pt(0 - 4, 0 - 2), Pt(40, 20), Pt(16, 0),
     <<NaN, 4 * Unit>>, <<4 * Unit, NaN>>}

ResetFormations ==
    {<<p0, p1, Pt(4, 2), Pt(28, 14)>> : p0 \in ResetSpots, p1 \in {Pt(15, 7), Pt(16, 8)}}

InitReset ==
    /\ ChanInit
    /\ MgrInit
    /\ UnitInit
    /\ state \in ResetStates
    /\ needs_reset = TRUE
    /\ rpc = "top"
    /\ evals = 0
    /\ goals = 0
    /\ last = [ret |-> FALSE, goal |-> FALSE, broken |-> FALSE, covering |-> 0,
               capped |-> FALSE, iterations |-> 0, pushed |-> FALSE,
               pend |-> "none"]

\* the loop head of run with needs_reset set: the reset requests and
\* eval_reset
ResetLoop ==
    /\ rpc = "top"
    /\ RunLoopWith(ResetFormations, ResetFormations)

SpecReset == InitReset /\ [][ResetLoop]_vars

\* C32: after eval_reset, for every formation, the ball is at the field
\* center with zero velocity, possession is Free, the stagnation state is
\* {center, 0}, every player's dir is zero, every team A player has x in
\* [0, width / 2] and every team B player x in [width / 2, width], no
\* player is closer than spawn_ball_dist to the center, and score and
\* tick are unchanged
C32_AfterReset ==
    [][(rpc = "top" /\ rpc' = "tick" /\ needs_reset) =>
         /\ state'.ball.pos = center
         /\ state'.ball.vel = ZERO
         /\ state'.ball_possession = Free
         /\ state'.ball_stagnation = [center |-> center, tick |-> 0]
         /\ state'.score = state.score
         /\ state'.tick = state.tick
         /\ \A i \in PlayerIds :
              LET p == state'.players[i]
                  lo == IF player_team(i) = "a" THEN 0 ELSE center[1]
              IN  /\ p.dir = ZERO
                  /\ p.pos[1] # NaN
                  /\ p.pos[2] # NaN
                  /\ lo <= p.pos[1]
                  /\ p.pos[1] <= lo + center[1]
                  /\ dist_sq(p.pos, center) >=
                       conf.spawn_ball_dist * conf.spawn_ball_dist]_vars

(* ------------------------------------------------------------------ *)
(* The capture sweep                                                   *)
(* ------------------------------------------------------------------ *)

\* C33: the sweep at the start of a tick in Possessed raises
\* capture_ticks by exactly k when k >= 1 opposing players have the ball
\* inside their pickup radius, lowers it by exactly 1 when k = 0 and
\* capture_ticks > 0, and leaves it 0 when k = 0 and capture_ticks = 0;
\* players of the owning team do not change it
C33_CaptureSweep ==
    [][(hbs.pc = "entry" /\ hbs.m.bp.kind = "Possessed") =>
         LET bp == hbs.m.bp
             k == Cardinality({i \in PlayerIds :
                                 /\ player_team(i) # bp.team
                                 /\ dist_sq(state.players[i].pos, hbs.m.ball.pos) <=
                                      state.players[i].pickup_radius *
                                        state.players[i].pickup_radius})
         IN  /\ hbs'.m.bp.kind = "Possessed"
             /\ hbs'.m.bp.owner = bp.owner
             /\ hbs'.m.bp.team = bp.team
             /\ k >= 1 => hbs'.m.bp.capture_ticks = bp.capture_ticks + k
             /\ (k = 0 /\ bp.capture_ticks > 0) =>
                    hbs'.m.bp.capture_ticks = bp.capture_ticks - 1
             /\ (k = 0 /\ bp.capture_ticks = 0) => hbs'.m.bp.capture_ticks = 0]_vars

\* the sweep has counted two opponents on the ball, with a team mate of
\* the owner on the ball too
C33_Witness ==
    /\ hbs.pc = "loop"
    /\ hbs.from.kind = "Possessed"
    /\ hbs.m.bp.kind = "Possessed"
    /\ hbs.m.bp.capture_ticks = hbs.from.capture_ticks + 2
    /\ Cardinality(covering(TeamIds(hbs.from.team))) = 2

(* ------------------------------------------------------------------ *)
(* The loop of handle_ball_state ends                                  *)
(* ------------------------------------------------------------------ *)

\* the loop keeps running: a call of handle_ball_state goes on to its end
LiveSpecBall == SpecBall /\ WF_hbs(NextBall)

\* the passes the actions still hold
passes_left(m) == Cardinality({i \in PlayerIds : m.passes[i] # NoPass})

\* A measure of what the loop may still do: every pass left allows a
\* round through the variants; within a round a Possessed state over the
\* capture limit comes before Passing, Passing before Free, Free before a
\* Possessed state within the limit
turns_left(m) ==
    4 * passes_left(m) +
      (CASE m.bp.kind = "Passing" -> 2
         [] m.bp.kind = "Free" -> 1
         [] m.bp.kind = "Possessed" ->
              IF m.bp.capture_ticks > conf.ball.capture_ticks THEN 3 ELSE 0)

\* C34: the loop of handle_ball_state ends for every state, every set of
\* actions and every outcome of the random choices: the number of variant
\* transitions in a tick is bounded, each Possessed -> Passing uses up one
\* player's pass, of which there are at most 2N, and Free never turns
\* back into Passing
C34_LoopEnds ==
    /\ <>(hbs.pc = "done")
    /\ [](hbs.n <= 4 * (2 * NUM_PLAYERS) + 4)
    /\ [][(hbs.pc = "loop" /\ hbs'.pc = "loop") =>
             turns_left(hbs'.m) < turns_left(hbs.m)]_vars
    /\ [][(hbs.pc = "loop" /\ hbs.m.bp.kind = "Possessed" /\ hbs'.m.bp.kind = "Passing") =>
             passes_left(hbs'.m) = passes_left(hbs.m) - 1]_vars
    /\ [][(hbs.pc = "loop" /\ hbs.m.bp.kind = "Free") =>
             hbs'.m.bp.kind # "Passing"]_vars

\* the loop has ended after both teams passed the ball in one tick
C34_Witness ==
    /\ hbs.pc = "done"
    /\ hbs.n >= 5
    /\ passes_left(hbs.m) = 0

(* ------------------------------------------------------------------ *)
(* The order of the requests                                           *)
(* ------------------------------------------------------------------ *)

\* s is the beginning of t
IsPrefix(s, t) == Len(s) <= Len(t) /\ SubSeq(t, 1, Len(s)) = s

\* the passes of the loop, of the first k + 1, on which eval_reset is
\* due: the first, and each one after an eval_tick that returned true
RECURSIVE resets_due(_, _)
resets_due(rets, k) ==
    IF k < 0 THEN <<>>
    ELSE resets_due(rets, k - 1) \o (IF k = 0 \/ rets[k] THEN <<k>> ELSE <<>>)

\* the requests due to a bot up to the tick request of pass k
RECURSIVE requests_due(_, _)
requests_due(rets, k) ==
    IF k < 0 THEN << <<"Handshake", 0>> >>
    ELSE requests_due(rets, k - 1)
           \o (IF k = 0 \/ rets[k] THEN << <<"Reset", k>> >> ELSE <<>>)
           \o << <<"Tick", k>> >>

\* C35: eval_reset is called before the first eval_tick and after every
\* eval_tick that returned true, before the next eval_tick, and at no
\* other time; each bot gets its requests in the order Handshake, Reset,
\* Tick requests, with a further Reset exactly after each tick that ended
\* in a goal or a stagnation (a bot whose process has exited gets none)
C35_ResetOrder ==
    /\ drv.pc \in {"tick", "join", "eval"} => drv.resets = resets_due(drv.rets, drv.n)
    /\ drv.pc \in {"top", "reset", "await", "done"} =>
           drv.resets = resets_due(drv.rets, drv.n - 1)
    /\ \A x \in BotNames :
         /\ drv.pc \in {"top", "done"} =>
                IsPrefix(drv.log[x], requests_due(drv.rets, drv.n - 1))
         /\ drv.pc \in {"reset", "await", "tick", "join", "eval"} =>
                IsPrefix(drv.log[x], requests_due(drv.rets, drv.n))
         /\ (drv.pc = "hs_join" \/ (drv.pc = "top" /\ drv.n = 0)) =>
                drv.log[x] = << <<"Handshake", 0>> >>
         /\ (drv.pc = "eval" /\ ~drv.exited[x]) =>
                drv.log[x] = requests_due(drv.rets, drv.n)

\* bot B has been sent a reset, a tick, a tick without a reset before it
\* and, after that tick returned true, a second reset and a third tick
C35_Witness ==
    /\ drv.pc = "join"
    /\ drv.n = 2
    /\ drv.rets = <<FALSE, TRUE>>
    /\ drv.log.b = << <<"Handshake", 0>>, <<"Reset", 0>>, <<"Tick", 0>>,
                      <<"Tick", 1>>, <<"Reset", 2>>, <<"Tick", 2>> >>

\* ---------------------------------------------------------------------
\* The length of the wait of BotChannel::msg.  Durations are in
\* milliseconds.
\* ---------------------------------------------------------------------
HANDSHAKE_TIMEOUT == 10000
INIT_TIMEOUT_FACTOR == 1000
TICK_TIMEOUT_FACTOR == 20

\* the factors a protocol may declare: define_protocols! gives Tick its
\* factor; the declarations of the Handshake and Reset protocols are any
\* of the factors in use, or 1
DeclaredFactors(p) ==
    IF p = "Tick" THEN {TICK_TIMEOUT_FACTOR}
    ELSE {1, TICK_TIMEOUT_FACTOR, INIT_TIMEOUT_FACTOR}

\* self.ticks when a request is made, and the average tick time of run
WaitTicks == {0, 1, DELAY_TICKS, TOTAL_COMPUTE_TICKS - DELAY_TICKS,
              TOTAL_COMPUTE_TICKS}
WaitBases == {0, 1, 2, 3}

\* the engine_time argument BotManager gives to msg
engine_time_arg(p, t, base) ==
    IF p = "Handshake" THEN HANDSHAKE_TIMEOUT ELSE t * base

\* the duration msg gives to time::timeout
msg_timeout(engine_time, factor) == engine_time * factor

InitWait ==
    /\ ChanInit /\ MgrInit /\ GameInit
    /\ BallIdle /\ MirrorIdle /\ RequestsIdle
    /\ \E p \in {"Handshake", "Reset", "Tick"} :
       \E f \in DeclaredFactors(p), t \in WaitTicks, base \in WaitBases :
          wt = [pc |-> "call", proto |-> p, factor |-> f, ticks |-> t,
                base |-> base, engine_time |-> 0, deadline |-> 0]

WaitFrame ==
    UNCHANGED <<chanVars, ticks, elapsed, overflow, requests, callVars,
                state, needs_reset, rpc, evals, goals, last, hbs, mir, drv>>

\* BotManager::handshake / reset / tick call self.channel.msg
ManagerCall ==
    /\ wt.pc = "call"
    /\ wt' = [wt EXCEPT !.pc = "msg",
                        !.engine_time =
                            engine_time_arg(wt.proto, wt.ticks, wt.base)]
    /\ WaitFrame

\* msg starts time::timeout(engine_time * T::TIMEOUT_FACTOR, poll(..))
MsgWait ==
    /\ wt.pc = "msg"
    /\ wt' = [wt EXCEPT !.pc = "wait",
                        !.deadline = msg_timeout(wt.engine_time, wt.factor)]
    /\ WaitFrame

NextWait == ManagerCall \/ MsgWait

SpecWait == InitWait /\ [][NextWait]_vars

\* C36: the wait for a response to a reset or a tick request expires
\* after the bot's budget ticks * baseline tick, and the wait for a
\* handshake after the fixed 10 s, with no further multiplier
C36_WaitIsBudget ==
    wt.pc = "wait" =>
        wt.deadline = IF wt.proto = "Handshake" THEN HANDSHAKE_TIMEOUT
                      ELSE wt.ticks * wt.base

\* ---------------------------------------------------------------------
\* sync after the drop of BotChannel
\* ---------------------------------------------------------------------

\* C37: once the drop of BotChannel has stored FINISHED, sync is FINISHED
\* in every later state: no step, and no sync.store(Busy) of a
\* handle_msg that loaded READY before the drop, changes it
C37_FinishedStays == [][sync = FINISHED => sync' = FINISHED]_vars

\* ---------------------------------------------------------------------
\* The iterations of handle_player_collision
\* ---------------------------------------------------------------------

\* no two players overlap: center distance >= sum of the radii
apart(players) == \A pr \in pairs : ~colliding(players, pr)

\* C38: handle_player_collision runs at least one and at most
\* COLLISION_MAX_ITERATIONS iterations; it stops before the cap only
\* after an iteration that made no pair correction and no wall
\* correction, and then no two players overlap when it returns
C38_Iterations ==
    [][evals' = evals + 1 =>
         /\ last'.iterations >= 1
         /\ last'.iterations <= MaxIterations
         /\ last'.iterations < MaxIterations => ~last'.capped
         /\ ~last'.capped => apart(state'.players)]_vars

\* the loop has stopped before the cap, after an iteration with a
\* correction and one without
C38_Witness ==
    /\ evals > 0
    /\ last.iterations > 1
    /\ last.iterations < MaxIterations
    /\ ~last.capped
    /\ apart(state.players)


====
